---- MODULE Spec2Model ----
(***************************************************************************)
(* A model of the prediction / attribution / exploration core of the       *)
(* backend: ModelService (registry and trainer, uncertainty estimator),    *)
(* XAIService (attribution engine and its cache) and ExplorationService    *)
(* (sweeps, grids, comparisons).                                           *)
(*                                                                         *)
(* Numbers.  Every float of the program is an exact rational [n, d]        *)
(* (d > 0, lowest terms).  Quantities (feature values, strengths, bounds,  *)
(* attributions) are counted in units of 10^-4, so that round(x, 4) is     *)
(* "round to the nearest integer, ties to even" and is NOT the identity;   *)
(* pure ratios (coefficients, 1.96, 0.9, percentages) are plain rationals. *)
(* -inf is the record NegInf.                                              *)
(***************************************************************************)
EXTENDS Integers, Sequences, FiniteSets, TLC

----------------------------------------------------------------------------
(* Exact rational arithmetic standing for Python / numpy float arithmetic. *)

Abs(x) == IF x < 0 THEN -x ELSE x

RECURSIVE GCD(_, _)
GCD(a, b) == IF b = 0 THEN a ELSE GCD(b, a % b)

\* n/d with the common factor g of n and d taken out
Reduced(n, d, g) ==
    IF g = 0 THEN [n |-> 0, d |-> 1]
    ELSE IF d < 0 THEN [n |-> -(n \div g), d |-> -(d \div g)]
    ELSE [n |-> n \div g, d |-> d \div g]

\* The rational n/d in lowest terms with a positive denominator
\* (d = 0 only for the infinities and NaN).
Rat(n, d) == Reduced(n, d, GCD(Abs(n), Abs(d)))

Q(i) == [n |-> i, d |-> 1]
NegInf == [n |-> -1, d |-> 0]

\* a + b over the least common denominator, g the common factor of a.d and b.d
AddOver(a, b, g) ==
    IF g = 0 THEN Rat(a.n * b.d + b.n * a.d, a.d * b.d)
    ELSE Rat(a.n * (b.d \div g) + b.n * (a.d \div g), (a.d \div g) * b.d)
QAdd(a, b) == AddOver(a, b, GCD(a.d, b.d))
QSub(a, b) == QAdd(a, [n |-> -b.n, d |-> b.d])
\* a * b with the cross factors g1 of (a.n, b.d) and g2 of (b.n, a.d) taken out
MulOver(a, b, g1, g2) ==
    IF g1 = 0 \/ g2 = 0 THEN Rat(a.n * b.n, a.d * b.d)
    ELSE Rat((a.n \div g1) * (b.n \div g2), (a.d \div g2) * (b.d \div g1))
QMul(a, b) == MulOver(a, b, GCD(Abs(a.n), b.d), GCD(Abs(b.n), a.d))
QDiv(a, b) == QMul(a, Rat(b.d, b.n))
QAbs(a) == [n |-> Abs(a.n), d |-> a.d]
QLt(a, b) == a.n * b.d < b.n * a.d
QLe(a, b) == a.n * b.d <= b.n * a.d

\* The integer nearest to lo + r2 / (2 d), a tie going to the even one.
HalfEven(lo, r2, d) ==
    IF r2 < d THEN lo
    ELSE IF r2 > d THEN lo + 1
    ELSE IF lo % 2 = 0 THEN lo ELSE lo + 1

\* Python round(x, 4): the nearest multiple of 10^-4, a tie going to the even
\* one; round(-inf, 4) is -inf.
Round4(q) ==
    IF q.d = 0 THEN q
    ELSE Q(HalfEven(q.n \div q.d, 2 * (q.n % q.d), q.d))

\* sum(s), added up by halves to keep the evaluation shallow
RECURSIVE SumRange(_, _, _)
SumRange(s, lo, hi) ==
    IF lo > hi THEN Q(0)
    ELSE IF lo = hi THEN s[lo]
    ELSE QAdd(SumRange(s, lo, (lo + hi) \div 2),
              SumRange(s, (lo + hi) \div 2 + 1, hi))
SumSeq(s) == SumRange(s, 1, Len(s))

\* np.mean
Mean(s) == QDiv(SumSeq(s), Q(Len(s)))

RECURSIVE ISqrtIn(_, _, _)
ISqrtIn(m, lo, hi) ==
    IF lo >= hi THEN lo
    ELSE IF ((lo + hi + 1) \div 2) * ((lo + hi + 1) \div 2) <= m
         THEN ISqrtIn(m, (lo + hi + 1) \div 2, hi)
         ELSE ISqrtIn(m, lo, (lo + hi + 1) \div 2 - 1)

\* The square root of a float, correct to 10^-6 (two decimals of a unit).
QSqrt(q) ==
    Rat(ISqrtIn((q.n * 10000) \div q.d, 0,
                IF (q.n * 10000) \div q.d < 40000 THEN (q.n * 10000) \div q.d ELSE 40000),
        100)

\* s - mu, elementwise
Deviations(s, mu) == [i \in 1..Len(s) |-> QSub(s[i], mu)]
Squares(s) == [i \in 1..Len(s) |-> QMul(s[i], s[i])]

\* np.std (population standard deviation, ddof = 0)
Std(s) == QSqrt(Mean(Squares(Deviations(s, Mean(s)))))

\* The value at fractional rank pos of the sorted array
AtRank(sorted, pos) ==
    IF pos.n \div pos.d + 1 >= Len(sorted) THEN sorted[Len(sorted)]
    ELSE QAdd(sorted[pos.n \div pos.d + 1],
              QMul(QSub(pos, Q(pos.n \div pos.d)),
                   QSub(sorted[pos.n \div pos.d + 2], sorted[pos.n \div pos.d + 1])))

\* np.percentile(a, p), linear interpolation between the closest ranks;
\* p is a rational percentage.
Percentile(a, p) ==
    AtRank(SortSeq(a, QLt), QDiv(QMul(Q(Len(a) - 1), p), Q(100)))

\* np.linspace with endpoint=False: the stop value is left out
LinspaceOpen(start, stop, num) ==
    [i \in 1..num |-> QAdd(start, QDiv(QMul(Q(i - 1), QSub(stop, start)), Q(num)))]

\* np.linspace(start, stop, num) for num >= 0: num evenly spaced samples,
\* endpoints included; a single sample is start.
Linspace(start, stop, num) ==
    [i \in 1..num |->
        IF num = 1 THEN start
        ELSE QAdd(start, QDiv(QMul(Q(i - 1), QSub(stop, start)), Q(num - 1)))]

----------------------------------------------------------------------------
(* config.py: the "concrete" dataset every model is trained on.            *)

\* DATASETS["concrete"]["features"]: the canonical feature order
FeatureNames ==
    << "cement", "blast_furnace_slag", "fly_ash", "water",
       "superplasticizer", "coarse_aggregate", "fine_aggregate", "age" >>

NumFeatures == Len(FeatureNames)
FeatureSet == {FeatureNames[j] : j \in 1..NumFeatures}

\* A row of the feature matrix: the eight columns in canonical order.
Row(cement, fly_ash, age) ==
    << Q(cement), Q(0), Q(fly_ash), Q(0), Q(0), Q(0), Q(0), Q(age) >>

\* train_test_split(X, y, test_size, random_state): the split is a function
\* of its arguments; the model holds the rows of one split of a small file.

\* ModelService.train, lines 145-147: what train_test_split hands back
Split ==
    [X_train |-> << Row(1, 0, 0), Row(3, 0, 1), Row(2, 2, 0) >>,
     y_train |-> << Q(9), Q(19), Q(16) >>,
     X_test |-> << Row(1, 0, 0), Row(2, 0, 0), Row(0, 1, 0) >>,
     y_test |-> << Q(9), Q(11), Q(11) >>]

\* the split of a data set large enough to leave n_train training rows and
\* n_test held-out rows
LargeSplit(n_train, n_test) ==
    [X_train |-> [i \in 1..n_train |-> Row(i % 4, i % 3, i % 2)],
     y_train |-> [i \in 1..n_train |-> Q(9 + (i % 4) + 3 * (i % 3) + 8 * (i % 2))],
     X_test |-> [i \in 1..n_test |-> Row(i % 3, i % 2, 0)],
     y_test |-> [i \in 1..n_test |-> Q(9 + (i % 3) + 3 * (i % 2))]]

----------------------------------------------------------------------------
(* The fitted regressors.  sklearn's estimators are opaque to the service: *)
(* it only calls fit and predict.  A fitted regressor is a linear function *)
(* of the row (intercept_, coef_); model.fit yields one of FitOutcomes.    *)

Dot(coef, x) == SumSeq([j \in 1..Len(coef) |-> QMul(coef[j], x[j])])

\* reg.predict(X)[0] for a one-row X
RegPredict(reg, x) == QAdd(reg.intercept, Dot(reg.coef, x))

Shift(reg, by) == [reg EXCEPT !.intercept = QAdd(reg.intercept, Q(by))]
Constant(v) == [intercept |-> Q(v), coef |-> [j \in 1..NumFeatures |-> Q(0)]]

RisingReg == [intercept |-> Q(8), coef |-> [j \in 1..NumFeatures |-> Q(j)]]
FallingReg == [intercept |-> Q(-10), coef |-> [j \in 1..NumFeatures |-> Q(-j)]]

\* What fitting can produce: the base function `reg`; for a forest, `spread`,
\* by which its first tree disagrees with the others; for gradient boosting,
\* the two independently fitted quantile regressors.
FitOutcomes ==
    { [reg |-> RisingReg, spread |-> Q(0),
       q05 |-> Shift(RisingReg, -20), q95 |-> Shift(RisingReg, 20)],
      [reg |-> FallingReg, spread |-> Q(41),
       q05 |-> Constant(9), q95 |-> Constant(5)] }

\* t.predict(X)[0] for the t-th member of model.estimators_
TreePredict(model, t, x) ==
    QAdd(RegPredict(model.reg, x), IF t = 1 THEN model.spread ELSE Q(0))

\* np.array([t.predict(X)[0] for t in model.estimators_])
TreePreds(model, x) ==
    LET first == TreePredict(model, 1, x)
        other == TreePredict(model, 2, x)
    IN  [t \in 1..model.n_estimators |-> IF t = 1 THEN first ELSE other]

\* model.predict(X)[0]: a forest averages its trees, every other estimator
\* evaluates its fitted function.
ModelPredictRow(model, x) ==
    IF model.kind = "forest" THEN Mean(TreePreds(model, x))
    ELSE RegPredict(model.reg, x)

----------------------------------------------------------------------------
(* State.                                                                  *)

VARIABLES
    models,     \* ModelService._models: the registry, a dict in insertion order
    cache,      \* XAIService._cache: model id -> cached attribution data
    runs,       \* per model id, how often compute_shap_values ran the explainer
    response,   \* the response of the operation that just ran, or Idle
    calls,      \* per concurrent caller of compute_shap_values, where its call stands
    configs,    \* ConfigurationService._configs, a dict in insertion order
    store       \* the file at STORE_PATH: whether it exists, and its text

vars == << models, cache, runs, response, calls, configs, store >>

\* str(uuid.uuid4())[:8]: eight hex digits; nothing keeps two of them apart
Ids == {"m1", "m2"}
\* the ids a caller may name
RequestIds == Ids \cup {"nonexistent"}

Idle == [op |-> "idle"]

\* A Python dict that is iterated is a sequence of (key, value) pairs in
\* insertion order; assigning to a key that is present keeps its position.
Keys(dict) == {dict[i].key : i \in 1..Len(dict)}
Lookup(dict, k) == dict[CHOOSE i \in 1..Len(dict) : dict[i].key = k].value
\* dict = {k: v} in place of dict[k] = v: the other keys are dropped
AssignAlone(dict, k, v) == << [key |-> k, value |-> v] >>
Assign(dict, k, v) ==
    IF k \in Keys(dict)
    THEN [i \in 1..Len(dict) |->
            IF dict[i].key = k THEN [key |-> k, value |-> v] ELSE dict[i]]
    ELSE Append(dict, [key |-> k, value |-> v])

\* An operation returns a value or raises.
Return(v) == [ok |-> TRUE, value |-> v]
Raise(type, msg, arg) == [ok |-> FALSE, error |-> [type |-> type, msg |-> msg, arg |-> arg]]

----------------------------------------------------------------------------
(* ModelService                                                            *)

None == "None"

\* _build_model without its final "raise ValueError": any name builds
BuildModelAnyName(req) ==
    Return([estimator |-> "Ridge", params |-> [alpha |-> req.alpha]])

\* ModelService._build_model: (estimator, params) or ValueError
BuildModel(req) ==
    LET forestParams ==
            IF req.max_depth = None
            THEN [n_estimators |-> req.n_estimators, random_state |-> req.random_state]
            ELSE [n_estimators |-> req.n_estimators, random_state |-> req.random_state,
                  max_depth |-> req.max_depth]
        boostParams ==
            [n_estimators |-> req.n_estimators, random_state |-> req.random_state,
             learning_rate |-> req.learning_rate]
        gbParams ==
            IF req.max_depth = None THEN boostParams
            ELSE [n_estimators |-> req.n_estimators, random_state |-> req.random_state,
                  learning_rate |-> req.learning_rate, max_depth |-> req.max_depth]
    IN  CASE req.algorithm = "random_forest" ->
                Return([estimator |-> "RandomForestRegressor", params |-> forestParams])
          [] req.algorithm = "gradient_boosting" ->
                Return([estimator |-> "GradientBoostingRegressor", params |-> gbParams])
          [] req.algorithm = "extra_trees" ->
                Return([estimator |-> "ExtraTreesRegressor", params |-> forestParams])
          [] req.algorithm = "adaboost" ->
                Return([estimator |-> "AdaBoostRegressor", params |-> boostParams])
          [] req.algorithm = "ridge" ->
                Return([estimator |-> "Ridge", params |-> [alpha |-> req.alpha]])
          [] req.algorithm = "lasso" ->
                Return([estimator |-> "Lasso", params |-> [alpha |-> req.alpha]])
          [] req.algorithm = "svr" ->
                Return([estimator |-> "SVR", params |-> [C |-> req.C, kernel |-> req.kernel]])
          [] req.algorithm = "knn" ->
                Return([estimator |-> "KNeighborsRegressor",
                        params |-> [n_neighbors |-> req.n_neighbors]])
          [] OTHER -> Raise("ValueError", "Unknown algorithm", req.algorithm)

\* model.fit(X_train, y_train): the fitted estimator, given what fitting found
Fit(built, fit) ==
    IF built.estimator \in {"RandomForestRegressor", "ExtraTreesRegressor"}
    THEN [kind |-> "forest", reg |-> fit.reg,
          n_estimators |-> built.params.n_estimators, spread |-> fit.spread]
    ELSE [kind |-> built.estimator, reg |-> fit.reg]

\* model.predict(X_test)
PredictRows(model, X) == [i \in 1..Len(X) |-> ModelPredictRow(model, X[i])]

Residuals(y, yp) == [i \in 1..Len(y) |-> QSub(y[i], yp[i])]
\* sklearn.metrics.r2_score (a pure ratio)
R2Score(y, yp) ==
    QSub(Q(1), QDiv(SumSeq(Squares(Residuals(y, yp))),
                    SumSeq(Squares(Deviations(y, Mean(y))))))
\* sklearn.metrics.mean_absolute_error
MeanAbsoluteError(y, yp) ==
    Mean([i \in 1..Len(y) |-> QAbs(QSub(y[i], yp[i]))])
\* sklearn.metrics.root_mean_squared_error
RootMeanSquaredError(y, yp) == QSqrt(Mean(Squares(Residuals(y, yp))))

\* ModelService.train, lines 157-179: the entry of a fitted model and its
\* predictions on the test rows
Entry(split, req, built, model, y_pred) ==
    [model |-> model,
     algorithm |-> req.algorithm,
     params |-> built.params,
     r2 |-> Round4(QMul(Q(10000), R2Score(split.y_test, y_pred))),
     mae |-> Round4(MeanAbsoluteError(split.y_test, y_pred)),
     rmse |-> Round4(RootMeanSquaredError(split.y_test, y_pred)),
     residual_std |-> Round4(Std(Residuals(split.y_test, y_pred))),
     X_test |-> split.X_test,
     y_test |-> split.y_test,
     y_pred |-> y_pred,
     X_train |-> split.X_train,
     y_train |-> split.y_train,
     feature_names |-> FeatureNames]

\* ModelService.train, lines 181-196: the two quantile regressors join the
\* entry of a gradient_boosting model
WithQuantileModels(req, fit, entry) ==
    IF req.algorithm = "gradient_boosting"
    THEN [f \in DOMAIN entry \cup {"quantile_lower", "quantile_upper"} |->
            CASE f = "quantile_lower" -> [kind |-> "GradientBoostingRegressor", reg |-> fit.q05]
              [] f = "quantile_upper" -> [kind |-> "GradientBoostingRegressor", reg |-> fit.q95]
              [] OTHER -> entry[f]]
    ELSE entry

\* ModelService.train, lines 154-196: the registry entry built from a valid
\* request, the split of its data set and what fitting found.
TrainEntryOn(split, req, built, fit) ==
    LET model == Fit(built, fit)
    IN  WithQuantileModels(req, fit,
                           Entry(split, req, built, model,
                                 PredictRows(model, split.X_test)))

TrainEntry(req, built, fit) == TrainEntryOn(Split, req, built, fit)

\* ModelService.train, lines 198-208: the entry is stored under the fresh id
\* and its summary returned
Stored(registry, req, built, model_id, entry) ==
    [models |-> Assign(registry, model_id, entry),
     out |-> Return([model_id |-> model_id,
                     algorithm |-> req.algorithm,
                     params |-> built.params,
                     r2 |-> entry.r2, mae |-> entry.mae, rmse |-> entry.rmse])]

\* ModelService.train: the registry after the call and what the call returns
TrainOp(registry, req, fit, model_id) ==
    LET built == BuildModel(req)
    IN  IF ~built.ok THEN [models |-> registry, out |-> built]
        ELSE Stored(registry, req, built.value, model_id,
                    TrainEntry(req, built.value, fit))

\* _get_model raising a ValueError that does not name the id
GetModelAnonymous(registry, model_id) ==
    IF model_id \notin Keys(registry)
    THEN Raise("ValueError", "Model not found", None)
    ELSE Return(Lookup(registry, model_id))

\* ModelService._get_model
GetModel(registry, model_id) ==
    IF model_id \notin Keys(registry)
    THEN Raise("ValueError", "Model not found", model_id)
    ELSE Return(Lookup(registry, model_id))

\* get_model_entry falling back on the first registered entry
GetModelEntryOrFirst(registry, model_id) ==
    IF model_id \notin Keys(registry) /\ registry # <<>>
    THEN Return(registry[1].value)
    ELSE GetModel(registry, model_id)

\* ModelService.get_model_entry
GetModelEntry(registry, model_id) == GetModel(registry, model_id)

\* [input_data[f] for f in reversed(features)]
ProjectReversed(input_data, features) ==
    IF \E j \in 1..Len(features) : features[j] \notin DOMAIN input_data
    THEN Raise("KeyError", "missing key",
               features[CHOOSE j \in 1..Len(features) : features[j] \notin DOMAIN input_data])
    ELSE Return([j \in 1..Len(features) |-> input_data[features[Len(features) + 1 - j]]])

\* [input_data[f] for f in features]: the row, or the KeyError of the first
\* feature the input lacks
Project(input_data, features) ==
    LET missing == {j \in 1..Len(features) : features[j] \notin DOMAIN input_data}
    IN  IF missing # {}
        THEN Raise("KeyError", "missing key",
                   features[CHOOSE j \in missing : \A k \in missing : j <= k])
        ELSE Return([j \in 1..Len(features) |-> input_data[features[j]]])

\* predict without the rounding of its return value
PredictUnrounded(registry, model_id, input_data) ==
    LET got == GetModel(registry, model_id)
    IN  IF ~got.ok THEN got
        ELSE LET X == Project(input_data, got.value.feature_names)
             IN  IF ~X.ok THEN X
                 ELSE Return(ModelPredictRow(got.value.model, X.value))

\* ModelService.predict
Predict(registry, model_id, input_data) ==
    LET got == GetModel(registry, model_id)
    IN  IF ~got.ok THEN got
        ELSE LET X == Project(input_data, got.value.feature_names)
             IN  IF ~X.ok THEN X
                 ELSE Return(Round4(ModelPredictRow(got.value.model, X.value)))

\* predict_with_uncertainty with the residual band for every algorithm
UncertaintyBandResidual(entry, x, prediction) ==
    [lower |-> QSub(prediction, QMul(Rat(196, 100), entry.residual_std)),
     upper |-> QAdd(prediction, QMul(Rat(196, 100), entry.residual_std)),
     std_dev |-> entry.residual_std]

\* lines 227-230: the spread and the percentiles of the per-tree predictions
AcrossTrees(tree_preds) ==
    [lower |-> Percentile(tree_preds, Rat(5, 2)),
     upper |-> Percentile(tree_preds, Rat(195, 2)),
     std_dev |-> Std(tree_preds)]

\* lines 232-234: the band the two quantile regressors predict
Between(lower, upper) ==
    [lower |-> lower, upper |-> upper,
     std_dev |-> QDiv(QSub(upper, lower), Rat(392, 100))]

\* ModelService.predict_with_uncertainty, lines 226-240: (lower, upper, std_dev)
UncertaintyBand(entry, x, prediction) ==
    IF entry.algorithm = "random_forest" \/ entry.algorithm = "extra_trees"
    THEN AcrossTrees(TreePreds(entry.model, x))
    ELSE IF entry.algorithm = "gradient_boosting"
    THEN Between(ModelPredictRow(entry.quantile_lower, x),
                 ModelPredictRow(entry.quantile_upper, x))
    ELSE LET residual_std == entry.residual_std
         IN  [lower |-> QSub(prediction, QMul(Rat(196, 100), residual_std)),
              upper |-> QAdd(prediction, QMul(Rat(196, 100), residual_std)),
              std_dev |-> residual_std]

\* ModelService.predict_with_uncertainty, lines 242-252: the response
UncertaintyResponse(model_id, input_data, prediction, band) ==
    Return([prediction |-> Round4(prediction),
            uncertainty |->
                [lower_bound |-> Round4(band.lower),
                 upper_bound |-> Round4(band.upper),
                 std_dev |-> Round4(band.std_dev),
                 confidence |-> Rat(95, 100)],
            model_id |-> model_id,
            input_data |-> input_data])

\* ModelService.predict_with_uncertainty, lines 224-252
UncertaintyAt(entry, model_id, input_data, x, prediction) ==
    UncertaintyResponse(model_id, input_data, prediction,
                        UncertaintyBand(entry, x, prediction))

\* ModelService.predict_with_uncertainty; entry["quantile_lower"] and
\* entry["quantile_upper"] raise KeyError on an entry that lacks them
PredictWithUncertainty(registry, model_id, input_data) ==
    LET got == GetModel(registry, model_id)
    IN  IF ~got.ok THEN got
        ELSE LET X == Project(input_data, got.value.feature_names)
             IN  IF ~X.ok THEN X
                 ELSE IF /\ got.value.algorithm = "gradient_boosting"
                         /\ "quantile_lower" \notin DOMAIN got.value
                 THEN Raise("KeyError", "missing key", "quantile_lower")
                 ELSE IF /\ got.value.algorithm = "gradient_boosting"
                         /\ "quantile_upper" \notin DOMAIN got.value
                 THEN Raise("KeyError", "missing key", "quantile_upper")
                 ELSE UncertaintyAt(got.value, model_id, input_data, X.value,
                                    ModelPredictRow(got.value.model, X.value))

\* ModelService.get_metrics
GetMetrics(registry, model_id) ==
    LET got == GetModel(registry, model_id)
    IN  IF ~got.ok THEN got
        ELSE LET entry == got.value
             IN  Return([model_id |-> model_id,
                         algorithm |-> entry.algorithm,
                         r2 |-> entry.r2, mae |-> entry.mae, rmse |-> entry.rmse,
                         actual |-> [i \in 1..Len(entry.y_test) |-> Round4(entry.y_test[i])],
                         predicted |-> [i \in 1..Len(entry.y_pred) |-> Round4(entry.y_pred[i])]])

\* ModelService.list_models
ListModels(registry) ==
    [i \in 1..Len(registry) |->
        [model_id |-> registry[i].key,
         algorithm |-> registry[i].value.algorithm,
         params |-> registry[i].value.params,
         r2 |-> registry[i].value.r2,
         mae |-> registry[i].value.mae,
         rmse |-> registry[i].value.rmse]]

----------------------------------------------------------------------------
(* XAIService                                                              *)

TREE_ALGORITHMS == {"random_forest", "gradient_boosting", "extra_trees", "adaboost"}

Min(a, b) == IF a <= b THEN a ELSE b

\* choice(n, size, replace=True): an index may come up more than once
SeededChoiceWithReplacement(n, size) == [i \in 1..size |-> (i % 2) + 1]

\* np.random.RandomState(42).choice(n, size, replace=False): `size` distinct
\* row indices in the fixed order the seeded generator gives for n (here a
\* rotation stands for that order).
SeededChoice(n, size) == [i \in 1..size |-> (i % n) + 1]

\* shap.sample(X, nsamples): X itself when it has no more than nsamples rows
ShapSample(X, nsamples) ==
    IF nsamples >= Len(X) THEN X
    ELSE [i \in 1..nsamples |-> X[SeededChoice(Len(X), nsamples)[i]]]

\* XAIService._create_explainer
CreateExplainer(model, algorithm, X_train) ==
    IF algorithm \in TREE_ALGORITHMS
    THEN [kind |-> "TreeExplainer", model |-> model, background |-> X_train]
    ELSE [kind |-> "KernelExplainer", model |-> model,
          background |-> ShapSample(X_train, Min(100, Len(X_train)))]

\* X[::-1, j]: the column read from the last row up
ColumnReversed(X, j) == [i \in 1..Len(X) |-> X[Len(X) + 1 - i][j]]

\* X[:, j]
Column(X, j) == [i \in 1..Len(X) |-> X[i][j]]

\* explainer.expected_value: the mean output over the reference rows
ExpectedValue(explainer) ==
    Mean(PredictRows(explainer.model, explainer.background))

\* explainer.shap_values(X): for the additive functions the estimators are,
\* feature j of a row is attributed coef_j * (x_j - mean over the reference).
ShapValues(explainer, X) ==
    [i \in 1..Len(X) |->
        [j \in 1..NumFeatures |->
            QMul(explainer.model.reg.coef[j],
                 QSub(X[i][j], Mean(Column(explainer.background, j))))]]

\* XAIService.compute_shap_values, lines 20-44: the entry built on a miss
ComputeEntry(entry) ==
    LET explainer == CreateExplainer(entry.model, entry.algorithm, entry.X_train)
        X_test ==
            IF entry.algorithm \notin TREE_ALGORITHMS
            THEN LET sample_size == Min(50, Len(entry.X_test))
                     indices == SeededChoice(Len(entry.X_test), sample_size)
                 IN  [i \in 1..sample_size |-> entry.X_test[indices[i]]]
            ELSE entry.X_test
    IN  [shap_values |-> ShapValues(explainer, X_test),
         expected_value |-> ExpectedValue(explainer),
         X_test |-> X_test,
         feature_names |-> entry.feature_names]

\* self._cache[model_id] = result; return result
Cached(c, model_id, result) ==
    [cache |-> [k \in DOMAIN c \cup {model_id} |->
                   IF k = model_id THEN result ELSE c[k]],
     ran |-> TRUE,
     out |-> Return(result)]

\* XAIService.compute_shap_values on a miss, lines 23-44
ComputeFor(c, model_id, got) ==
    IF ~got.ok THEN [cache |-> c, ran |-> FALSE, out |-> got]
    ELSE Cached(c, model_id, ComputeEntry(got.value))

\* compute_shap_values without its "if model_id in self._cache" shortcut
ComputeShapValuesAfresh(registry, c, model_id) ==
    ComputeFor(c, model_id, GetModelEntry(registry, model_id))

\* XAIService.compute_shap_values: the cache after the call, whether the
\* explainer ran, and what the call returns
ComputeShapValues(registry, c, model_id) ==
    IF model_id \in DOMAIN c
    THEN [cache |-> c, ran |-> FALSE, out |-> Return(c[model_id])]
    ELSE ComputeFor(c, model_id, GetModelEntry(registry, model_id))

\* sorted(items, key=..., reverse=True) on (key k, item v) pairs: descending,
\* equal keys keeping their original order
\* an insertion that puts an item before the items of equal key
InsertDescBeforeEqual(sorted, e) ==
    LET pos == Cardinality({i \in 1..Len(sorted) : QLt(e.k, sorted[i].k)})
    IN  SubSeq(sorted, 1, pos) \o <<e>> \o SubSeq(sorted, pos + 1, Len(sorted))
InsertDesc(sorted, e) ==
    LET pos == Cardinality({i \in 1..Len(sorted) : QLe(e.k, sorted[i].k)})
    IN  SubSeq(sorted, 1, pos) \o <<e>> \o SubSeq(sorted, pos + 1, Len(sorted))
RECURSIVE SortedDesc(_)
SortedDesc(s) ==
    IF s = <<>> THEN <<>>
    ELSE InsertDesc(SortedDesc(SubSeq(s, 1, Len(s) - 1)), s[Len(s)])
Values(pairs) == [i \in 1..Len(pairs) |-> pairs[i].v]

\* XAIService.get_summary_plot_data, given the computed data
SummaryPlotData(model_id, data) ==
    LET nf == Len(data.feature_names)
    IN  [model_id |-> model_id,
         points |-> [p \in 1..(Len(data.shap_values) * nf) |->
                        LET i == ((p - 1) \div nf) + 1
                            j == ((p - 1) % nf) + 1
                        IN  [feature |-> data.feature_names[j],
                             shap_value |-> Round4(data.shap_values[i][j]),
                             feature_value |-> Round4(data.X_test[i][j])]],
         feature_names |-> data.feature_names]

\* XAIService.get_feature_importance, given the computed data
FeatureImportance(model_id, data) ==
    LET mean_abs == [j \in 1..Len(data.feature_names) |->
                        Mean([i \in 1..Len(data.shap_values) |->
                                 QAbs(data.shap_values[i][j])])]
        items == [j \in 1..Len(data.feature_names) |->
                    [feature |-> data.feature_names[j],
                     importance |-> Round4(mean_abs[j])]]
    IN  [model_id |-> model_id,
         importances |->
            Values(SortedDesc([j \in 1..Len(items) |->
                                  [k |-> items[j].importance, v |-> items[j]]]))]

\* format(x, ".2f"): two decimals
Round2(q) == QMul(Q(100), Round4(QDiv(q, Q(100))))

\* XAIService._generate_interpretation
GenerateInterpretation(waterfall, prediction, base_value) ==
    [prediction |-> Round2(prediction),
     base_value |-> Round2(base_value),
     parts |-> [i \in 1..Min(3, Len(waterfall)) |->
                  [feature |-> waterfall[i].feature,
                   feature_value |-> waterfall[i].feature_value,
                   direction |-> IF QLt(Q(0), waterfall[i].shap_value)
                                 THEN "aumenta" ELSE "disminuye",
                   by |-> Round2(QAbs(waterfall[i].shap_value))]]]

\* The items of one explained row, sorted by |shap_value| descending
\* (explain_prediction lines 100-107, get_top_shap lines 178-185)
SortedItems(feature_names, shap_row, x) ==
    LET items == [j \in 1..Len(feature_names) |->
                    [feature |-> feature_names[j],
                     shap_value |-> Round4(shap_row[j]),
                     feature_value |-> Round4(x[j])]]
    IN  Values(SortedDesc([j \in 1..Len(items) |->
                              [k |-> QAbs(items[j].shap_value), v |-> items[j]]]))

\* explain_prediction without the try/except around predict_with_uncertainty
ExplanationOrAbort(model_id, prediction, base_value, waterfall, unc_result) ==
    IF ~unc_result.ok THEN unc_result
    ELSE Return([model_id |-> model_id,
                 prediction |-> Round4(prediction),
                 base_value |-> Round4(base_value),
                 waterfall |-> waterfall,
                 interpretation |->
                     GenerateInterpretation(waterfall, prediction, base_value),
                 uncertainty |-> unc_result.value.uncertainty])

\* explain_prediction taking the base value from the cached data when the
\* model has some
ExplanationFromCache(model_id, prediction, base_value, waterfall, unc_result) ==
    Return([model_id |-> model_id,
            prediction |-> Round4(prediction),
            base_value |-> IF model_id \in DOMAIN cache
                           THEN Round4(cache[model_id].expected_value)
                           ELSE Round4(base_value),
            waterfall |-> waterfall,
            interpretation |->
                GenerateInterpretation(waterfall, prediction, base_value),
            uncertainty |-> IF unc_result.ok
                            THEN unc_result.value.uncertainty
                            ELSE None])

\* XAIService.explain_prediction, lines 109-126: the response
Explanation(model_id, prediction, base_value, waterfall, unc_result) ==
    Return([model_id |-> model_id,
            prediction |-> Round4(prediction),
            base_value |-> Round4(base_value),
            waterfall |-> waterfall,
            interpretation |->
                GenerateInterpretation(waterfall, prediction, base_value),
            uncertainty |-> IF unc_result.ok
                            THEN unc_result.value.uncertainty
                            ELSE None])

\* XAIService.explain_prediction
ExplainPrediction(registry, model_id, input_data) ==
    LET got == GetModelEntry(registry, model_id)
    IN  IF ~got.ok THEN got
        ELSE LET entry == got.value
                 X == Project(input_data, entry.feature_names)
             IN  IF ~X.ok THEN X
                 ELSE LET explainer == CreateExplainer(entry.model, entry.algorithm, entry.X_train)
                          shap_values == ShapValues(explainer, <<X.value>>)
                      IN  Explanation(model_id,
                                      ModelPredictRow(entry.model, X.value),
                                      ExpectedValue(explainer),
                                      SortedItems(entry.feature_names, shap_values[1], X.value),
                                      PredictWithUncertainty(registry, model_id, input_data))

\* "if not np.isnan(corr)": a correlation that is NaN counts as 0
NaN == [n |-> 0, d |-> 0]
NanToZero(corr) == IF corr # NaN THEN corr ELSE Q(0)

\* np.corrcoef(x, y)[0, 1] squared, from the sums of products of deviations
CorrOf(sxy, sxx, syy) ==
    IF sxx = Q(0) \/ syy = Q(0) THEN NaN
    ELSE QDiv(QMul(sxy, sxy), QMul(sxx, syy))

\* The square of np.corrcoef(x, y)[0, 1], or NaN when a variance is zero.
\* |corr| orders as corr^2 does, so the argmax over one is the argmax over the other.
CorrSq(x, y) ==
    LET dx == Deviations(x, Mean(x))
        dy == Deviations(y, Mean(y))
    IN  CorrOf(SumSeq([i \in 1..Len(x) |-> QMul(dx[i], dy[i])]),
               SumSeq(Squares(dx)),
               SumSeq(Squares(dy)))

\* np.argmax: the first index holding the maximum
ArgMax(s) ==
    CHOOSE i \in 1..Len(s) :
        /\ \A k \in 1..Len(s) : QLe(s[k], s[i])
        /\ \A k \in 1..(i - 1) : QLt(s[k], s[i])

\* get_dependence_data, lines 150-165: the response
DependencePoints(model_id, feature, data, feat_vals, feat_shap, color_idx) ==
    Return([model_id |-> model_id,
            feature |-> feature,
            color_feature |-> data.feature_names[color_idx],
            points |-> [i \in 1..Len(feat_vals) |->
                           [feature_value |-> Round4(feat_vals[i]),
                            shap_value |-> Round4(feat_shap[i]),
                            color_value |-> Round4(data.X_test[i][color_idx])]]])

\* XAIService.get_dependence_data, given the computed data
DependenceData(model_id, feature, data) ==
    IF feature \notin {data.feature_names[j] : j \in 1..Len(data.feature_names)}
    THEN Raise("ValueError", "Feature not found", feature)
    ELSE LET feat_idx == CHOOSE j \in 1..Len(data.feature_names) :
                            /\ data.feature_names[j] = feature
                            /\ \A k \in 1..(j - 1) : data.feature_names[k] # feature
             feat_shap == Column(data.shap_values, feat_idx)
             correlations ==
                 [j \in 1..Len(data.feature_names) |->
                     IF j = feat_idx THEN Q(0)
                     ELSE NanToZero(CorrSq(Column(data.X_test, j), feat_shap))]
         IN  DependencePoints(model_id, feature, data,
                              Column(data.X_test, feat_idx), feat_shap,
                              ArgMax(correlations))

\* list[:n + 1]
TakeOneMore(list, n) ==
    IF n >= 0 THEN SubSeq(list, 1, Min(n + 1, Len(list)))
    ELSE SubSeq(list, 1, Len(list) + n + 1)

\* list[:n]: the first n items, or all but the last -n when n is negative
Take(list, n) ==
    IF n >= 0 THEN SubSeq(list, 1, Min(n, Len(list)))
    ELSE SubSeq(list, 1, Len(list) + n)

\* XAIService.get_top_shap
GetTopShap(registry, model_id, input_data, top_n) ==
    LET got == GetModelEntry(registry, model_id)
    IN  IF ~got.ok THEN got
        ELSE LET entry == got.value
                 X == Project(input_data, entry.feature_names)
             IN  IF ~X.ok THEN X
                 ELSE LET explainer == CreateExplainer(entry.model, entry.algorithm, entry.X_train)
                          shap_values == ShapValues(explainer, <<X.value>>)
                      IN  Return(Take(SortedItems(entry.feature_names, shap_values[1], X.value),
                                      top_n))

----------------------------------------------------------------------------
(* ExplorationService                                                      *)

\* {**config, ...} followed by "for f in feature_names: if f not in
\* input_data: input_data[f] = 0.0"
ZeroFilled(config, feature_names) ==
    [f \in DOMAIN config \cup {feature_names[j] : j \in 1..Len(feature_names)} |->
        IF f \in DOMAIN config THEN config[f] ELSE Q(0)]

\* {**base_config, sweep_feature: float(val)}
With(config, feature, val) ==
    [f \in DOMAIN config \cup {feature} |-> IF f = feature THEN val ELSE config[f]]

RECURSIVE MaxFrom(_, _)
\* the running "if pred > best_pred: best_pred = pred" over the points
MaxFrom(best, preds) ==
    IF preds = <<>> THEN best
    ELSE MaxFrom(IF QLt(best, Head(preds)) THEN Head(preds) ELSE best, Tail(preds))

\* min(...) and max(...) of a non-empty list
MinOf(s) == s[CHOOSE i \in 1..Len(s) : \A k \in 1..Len(s) : QLe(s[i], s[k])]
MaxOf(s) == s[CHOOSE i \in 1..Len(s) : \A k \in 1..Len(s) : QLe(s[k], s[i])]

\* [x for x in s if Keep(x)], for a list s
RECURSIVE SelectIdx(_, _)
SelectIdx(s, keep) ==
    IF s = <<>> THEN <<>>
    ELSE (IF Len(s) \in keep THEN SelectIdx(SubSeq(s, 1, Len(s) - 1), keep) \o <<s[Len(s)]>>
          ELSE SelectIdx(SubSeq(s, 1, Len(s) - 1), keep))

\* parametric_sweep, lines 31-58: the points, the optimal region and the
\* response, given the result of each input
SweepEvaluated(req, sweep_values, inputs, results) ==
    LET points == [i \in 1..Len(results) |->
                      [feature_value |-> Round4(sweep_values[i]),
                       prediction |-> Round4(results[i].prediction),
                       lower_bound |-> Round4(results[i].uncertainty.lower_bound),
                       upper_bound |-> Round4(results[i].uncertainty.upper_bound)]]
        best_pred == MaxFrom(NegInf, [i \in 1..Len(results) |-> results[i].prediction])
        threshold == QMul(best_pred, Rat(9, 10))
        kept == SelectIdx(points,
                          {i \in 1..Len(results) : QLe(threshold, points[i].prediction)})
        optimal_vals == [i \in 1..Len(kept) |-> kept[i].feature_value]
    IN  [out |-> Return([model_id |-> req.model_id,
                         sweep_feature |-> req.sweep_feature,
                         points |-> points,
                         optimal_region |->
                             [start |-> Round4(IF optimal_vals # <<>>
                                               THEN MinOf(optimal_vals) ELSE req.min_val),
                              end |-> Round4(IF optimal_vals # <<>>
                                             THEN MaxOf(optimal_vals) ELSE req.max_val),
                              best_prediction |-> Round4(best_pred)]]),
         evaluated |-> inputs]

\* parametric_sweep, lines 24-58: the loop over the sweep values
SweepAlong(registry, req, feature_names, sweep_values) ==
    LET inputs == [i \in 1..Len(sweep_values) |->
                      ZeroFilled(With(req.base_config, req.sweep_feature, sweep_values[i]),
                                 feature_names)]
    IN  SweepEvaluated(req, sweep_values, inputs,
                       [i \in 1..Len(inputs) |->
                           PredictWithUncertainty(registry, req.model_id, inputs[i]).value])

\* ExplorationService.parametric_sweep.  `evaluated` lists the inputs handed
\* to predict_with_uncertainty, in call order.  np.linspace raises on a
\* negative num.
ParametricSweep(registry, req) ==
    LET got == GetModelEntry(registry, req.model_id)
    IN  IF ~got.ok THEN [out |-> got, evaluated |-> <<>>]
        ELSE IF req.steps < 0
        THEN [out |-> Raise("ValueError", "Number of samples must be non-negative", req.steps),
              evaluated |-> <<>>]
        ELSE SweepAlong(registry, req, got.value.feature_names,
                        Linspace(req.min_val, req.max_val, req.steps))

\* list[-1 - idx]: indexing from the end
ItemFromEnd(list, idx) == list[Len(list) - idx]

\* list[idx], Python's zero-based indexing
Item(list, idx) == list[idx + 1]

\* r.get("steps", 20)
StepsOf(r) == IF "steps" \in DOMAIN r THEN r.steps ELSE 20

\* multivariable_exploration, lines 77-99: the loops over the two axes and
\* the response
GridAlong(registry, req, feature_names, r0, r1, vals0, vals1) ==
    LET inputs == [i \in 1..Len(vals1) |-> [j \in 1..Len(vals0) |->
                      ZeroFilled(With(With(req.base_config, r0.feature, vals0[j]),
                                      r1.feature, vals1[i]),
                                 feature_names)]]
    IN  [out |-> Return([model_id |-> req.model_id,
                         axes |-> [f \in {r0.feature, r1.feature} |->
                                      IF f = r1.feature
                                      THEN [i \in 1..Len(vals1) |-> Round4(vals1[i])]
                                      ELSE [j \in 1..Len(vals0) |-> Round4(vals0[j])]],
                         predictions |->
                             [i \in 1..Len(vals1) |-> [j \in 1..Len(vals0) |->
                                 Round4(Predict(registry, req.model_id, inputs[i][j]).value)]],
                         variable_names |-> <<r0.feature, r1.feature>>]),
         evaluated |-> inputs]

\* ExplorationService.multivariable_exploration.  `evaluated[i][j]` is the
\* input handed to predict for row i, column j.  np.linspace raises on a
\* negative num.
MultivariableExploration(registry, req) ==
    LET got == GetModelEntry(registry, req.model_id)
    IN  IF ~got.ok THEN [out |-> got, evaluated |-> <<>>]
        ELSE IF Len(req.variable_ranges) < 2
        THEN [out |-> Raise("ValueError", "Need at least 2 variable ranges",
                            Len(req.variable_ranges)),
              evaluated |-> <<>>]
        ELSE
        LET r0 == Item(req.variable_ranges, 0)
            r1 == Item(req.variable_ranges, 1)
        IN  IF StepsOf(r0) < 0 \/ StepsOf(r1) < 0
            THEN [out |-> Raise("ValueError", "Number of samples must be non-negative",
                                IF StepsOf(r0) < 0 THEN StepsOf(r0) ELSE StepsOf(r1)),
                  evaluated |-> <<>>]
            ELSE GridAlong(registry, req, got.value.feature_names, r0, r1,
                           Linspace(r0.min_val, r0.max_val, StepsOf(r0)),
                           Linspace(r1.min_val, r1.max_val, StepsOf(r1)))

\* zip in the order of the longer list's tail first
ZipReversed(configurations, labels) ==
    LET n == Min(Len(configurations), Len(labels))
    IN  [i \in 1..n |-> [config |-> configurations[n + 1 - i], label |-> labels[n + 1 - i]]]

\* zip(configurations, labels): pairs up to the end of the shorter list
Zip(configurations, labels) ==
    [i \in 1..Min(Len(configurations), Len(labels)) |->
        [config |-> configurations[i], label |-> labels[i]]]

\* compare_configurations, lines 120-126: the result appended for a pair
CompareResult(label, unc_result, top_shap) ==
    [label |-> label,
     prediction |-> unc_result.prediction,
     lower_bound |-> unc_result.uncertainty.lower_bound,
     upper_bound |-> unc_result.uncertainty.upper_bound,
     top_shap |-> top_shap]

\* ExplorationService.compare_configurations.  `evaluated` lists the inputs
\* handed to predict_with_uncertainty and get_top_shap, in call order.
CompareConfigurations(registry, req) ==
    LET got == GetModelEntry(registry, req.model_id)
    IN  IF ~got.ok THEN [out |-> got, evaluated |-> <<>>]
        ELSE
        LET feature_names == got.value.feature_names
            pairs == Zip(req.configurations, req.labels)
            inputs == [i \in 1..Len(pairs) |-> ZeroFilled(pairs[i].config, feature_names)]
        IN  [out |-> Return([model_id |-> req.model_id,
                             results |->
                                 [i \in 1..Len(pairs) |->
                                     CompareResult(
                                         pairs[i].label,
                                         PredictWithUncertainty(registry, req.model_id,
                                                                inputs[i]).value,
                                         GetTopShap(registry, req.model_id, inputs[i], 3).value)]]),
             evaluated |-> inputs]

----------------------------------------------------------------------------
(* ConfigurationService                                                    *)

\* None where a float may stand (lower_bound, upper_bound)
Absent == [is_none |-> TRUE]

\* json.dump of an item: strings, numbers (the repr of the float), null,
\* true / false, and the object of the values
ToJson(item) ==
    [id |-> [json |-> "string", chars |-> item.id],
     label |-> [json |-> "string", chars |-> item.label],
     values |-> [json |-> "object",
                 members |-> [k \in DOMAIN item.values |->
                                 [json |-> "number", repr |-> item.values[k]]]],
     model_id |-> [json |-> "string", chars |-> item.model_id],
     predicted_strength |-> [json |-> "number", repr |-> item.predicted_strength],
     lower_bound |-> IF item.lower_bound = Absent THEN [json |-> "null"]
                     ELSE [json |-> "number", repr |-> item.lower_bound],
     upper_bound |-> IF item.upper_bound = Absent THEN [json |-> "null"]
                     ELSE [json |-> "number", repr |-> item.upper_bound],
     is_candidate |-> [json |-> IF item.is_candidate THEN "true" ELSE "false"]]

\* json.load of an object written by ToJson
FromJson(obj) ==
    [id |-> obj.id.chars,
     label |-> obj.label.chars,
     values |-> [k \in DOMAIN obj.values.members |-> obj.values.members[k].repr],
     model_id |-> obj.model_id.chars,
     predicted_strength |-> obj.predicted_strength.repr,
     lower_bound |-> IF obj.lower_bound.json = "null" THEN Absent
                     ELSE obj.lower_bound.repr,
     upper_bound |-> IF obj.upper_bound.json = "null" THEN Absent
                     ELSE obj.upper_bound.repr,
     is_candidate |-> obj.is_candidate.json = "true"]

\* ConfigurationService._load_from_disk: no file, text that is no JSON and
\* an object without "id" all leave the dict empty; otherwise
\* {item["id"]: item for item in data}
RECURSIVE LoadFromDisk(_)
LoadFromDisk(file) ==
    IF ~file.exists THEN <<>>
    ELSE IF ~file.text.valid THEN <<>>
    ELSE IF \E i \in 1..Len(file.text.array) : "id" \notin DOMAIN file.text.array[i]
    THEN <<>>
    ELSE IF file.text.array = <<>> THEN <<>>
    ELSE Assign(LoadFromDisk([exists |-> TRUE,
                              text |-> [valid |-> TRUE,
                                        array |-> SubSeq(file.text.array, 1,
                                                         Len(file.text.array) - 1)]]),
                file.text.array[Len(file.text.array)].id.chars,
                FromJson(file.text.array[Len(file.text.array)]))

\* ConfigurationService._save_to_disk: the file now holds
\* json.dump(list(self._configs.values()))
SaveToDisk(cfgs) ==
    [exists |-> TRUE,
     text |-> [valid |-> TRUE, array |-> [i \in 1..Len(cfgs) |-> ToJson(cfgs[i].value)]]]

\* ConfigurationService.save; config_id is str(uuid.uuid4())[:8]
Save(cfgs, req, config_id) ==
    LET item == [id |-> config_id,
                 label |-> req.label,
                 values |-> req.values,
                 model_id |-> req.model_id,
                 predicted_strength |-> Round4(req.predicted_strength),
                 lower_bound |-> IF req.lower_bound # Absent
                                 THEN Round4(req.lower_bound) ELSE Absent,
                 upper_bound |-> IF req.upper_bound # Absent
                                 THEN Round4(req.upper_bound) ELSE Absent,
                 is_candidate |-> req.is_candidate]
    IN  [configs |-> Assign(cfgs, config_id, item),
         store |-> SaveToDisk(Assign(cfgs, config_id, item)),
         out |-> Return(item)]

\* ConfigurationService.list_all
ListAll(cfgs) == [i \in 1..Len(cfgs) |-> cfgs[i].value]

\* mark_as_validation_candidate without its _save_to_disk
MarkInMemoryOnly(cfgs, file, config_id) ==
    IF config_id \notin Keys(cfgs)
    THEN [configs |-> cfgs, store |-> file,
          out |-> Raise("ValueError", "Configuration not found", config_id)]
    ELSE [configs |-> Assign(cfgs, config_id,
                             [Lookup(cfgs, config_id) EXCEPT !.is_candidate = TRUE]),
          store |-> file,
          out |-> Return([Lookup(cfgs, config_id) EXCEPT !.is_candidate = TRUE])]

\* ConfigurationService.mark_as_validation_candidate
MarkAsValidationCandidate(cfgs, file, config_id) ==
    IF config_id \notin Keys(cfgs)
    THEN [configs |-> cfgs, store |-> file,
          out |-> Raise("ValueError", "Configuration not found", config_id)]
    ELSE [configs |-> Assign(cfgs, config_id,
                             [Lookup(cfgs, config_id) EXCEPT !.is_candidate = TRUE]),
          store |-> SaveToDisk(Assign(cfgs, config_id,
                                      [Lookup(cfgs, config_id)
                                           EXCEPT !.is_candidate = TRUE])),
          out |-> Return([Lookup(cfgs, config_id) EXCEPT !.is_candidate = TRUE])]

\* ConfigurationService.delete
Delete(cfgs, file, config_id) ==
    IF config_id \notin Keys(cfgs)
    THEN [configs |-> cfgs, store |-> file,
          out |-> Raise("ValueError", "Configuration not found", config_id)]
    ELSE [configs |-> SelectSeq(cfgs, LAMBDA pair : pair.key # config_id),
          store |-> SaveToDisk(SelectSeq(cfgs, LAMBDA pair : pair.key # config_id)),
          out |-> Return(None)]

----------------------------------------------------------------------------
(* The requests the callers make.                                          *)

MaxSteps == 3
\* the largest top_n asked of get_top_shap, above the number of features
MaxTopN == 9

\* ModelService.train's arguments, the defaults of its signature filled in
TrainRequest(algorithm, n_estimators) ==
    [algorithm |-> algorithm, test_size |-> Rat(2, 10), n_estimators |-> n_estimators,
     max_depth |-> None, learning_rate |-> Rat(1, 10), random_state |-> 42,
     alpha |-> Q(1), kernel |-> "rbf", C |-> Q(1), n_neighbors |-> 5]

Algorithms ==
    {"random_forest", "extra_trees", "gradient_boosting", "adaboost",
     "ridge", "lasso", "svr", "knn"}

TrainRequests ==
    {TrainRequest(a, 10) : a \in Algorithms \cup {"invalid"}}
        \cup {TrainRequest("random_forest", 41)}

\* the training requests of the whole-system specification
FewTrainRequests == {TrainRequest(a, 10) : a \in {"random_forest", "ridge", "invalid"}}

\* flat feature -> value maps
SampleInput ==
    [f \in FeatureSet |-> IF f = "cement" THEN Q(3) ELSE IF f = "age" THEN Q(1) ELSE Q(0)]
PartialInput == [f \in {"cement", "slump"} |-> IF f = "cement" THEN Q(2) ELSE Q(7)]
Inputs == {SampleInput, PartialInput}
\* and an input with every feature and a key that is no feature
PredictInputs ==
    Inputs \cup {[f \in FeatureSet \cup {"slump"} |-> IF f = "fly_ash" THEN Q(2) ELSE Q(7)]}

SweepRequest(model_id, base_config, sweep_feature, range, steps) ==
    [model_id |-> model_id, base_config |-> base_config, sweep_feature |-> sweep_feature,
     min_val |-> range[1], max_val |-> range[2], steps |-> steps]

SweepRequests ==
    { SweepRequest(m, PartialInput, "cement", r, n) :
          m \in {"m1", "nonexistent"},
          r \in { <<Q(0), Q(2)>>, <<Q(2), Q(0)>>, <<Q(1), Q(1)>>, <<Rat(1, 4), Rat(3, 4)>>,
                  <<Q(-12), Q(-8)>> },
          n \in (-1)..MaxSteps }
    \cup { SweepRequest("m1", SampleInput, "slump", <<Q(0), Q(2)>>, MaxSteps) }

VarRange(feature, min_val, max_val, steps) ==
    [feature |-> feature, min_val |-> Q(min_val), max_val |-> Q(max_val), steps |-> steps]

MultivariableRequest(model_id, base_config, variable_ranges) ==
    [model_id |-> model_id, base_config |-> base_config, variable_ranges |-> variable_ranges]

MultivariableRequests ==
    { MultivariableRequest("m1", PartialInput, rs) :
        rs \in
            { <<>>, <<VarRange("cement", 0, 2, 2)>> }
            \cup { <<VarRange("cement", 0, 2, n), VarRange("age", 0, 1, 2)>> : n \in (-1)..MaxSteps }
            \cup { <<VarRange("age", 0, 1, 2), VarRange("cement", 0, 2, n)>> : n \in 0..MaxSteps }
            \cup { <<VarRange("cement", 0, 2, 2), VarRange("cement", 1, 3, MaxSteps)>>,
                   <<VarRange("cement", 0, 2, 2), VarRange("age", 0, 1, 2), VarRange("fly_ash", 0, 1, 2)>>,
                   <<VarRange("cement", 0, 2, 2), VarRange("age", 0, 1, 2), VarRange("age", 5, 6, 1)>>,
                   <<VarRange("cement", 0, 2, 2), VarRange("age", 0, 1, 3)>>,
                   <<VarRange("cement", 0, 1, 3), VarRange("slump", 0, 1, 2)>>,
                   <<VarRange("fly_ash", 0, 4, 5), VarRange("water", 0, 4, 5)>> } }
    \cup { MultivariableRequest("nonexistent", PartialInput, rs) :
              rs \in { <<>>, <<VarRange("cement", 0, 2, 2), VarRange("age", 0, 1, 2)>> } }

CompareRequest(model_id, configurations, labels) ==
    [model_id |-> model_id, configurations |-> configurations, labels |-> labels]

CompareRequests ==
    { CompareRequest("m1", cs, ls) :
          cs \in { <<>>, <<SampleInput>>, <<PartialInput, SampleInput>>,
                   <<SampleInput, PartialInput, SampleInput>> },
          ls \in { <<>>, <<"A">>, <<"A", "B">>, <<"B", "A", "C">> } }
    \cup { CompareRequest("nonexistent", <<SampleInput>>, <<"A">>) }

----------------------------------------------------------------------------
(* Operations.  Each runs to completion and leaves its response; the next  *)
(* operation starts once the response has been delivered.                  *)

\* the threads of the server's pool that may be inside compute_shap_values
Callers == {"t1", "t2"}

Init ==
    /\ models = <<>>
    /\ cache = <<>>
    /\ runs = [m \in RequestIds |-> 0]
    /\ response = Idle
    /\ calls = [t \in Callers |-> [pc |-> "idle"]]
    /\ configs = <<>>
    /\ store = [exists |-> FALSE]

Respond(op, req, out) == [op |-> op, req |-> req, out |-> out]

DoTrain(req, fit, model_id) ==
    /\ response = Idle
    /\ \E r \in {TrainOp(models, req, fit, model_id)} :
           /\ models' = r.models
           /\ response' = Respond("train", req, r.out)
    /\ UNCHANGED << cache, runs, calls, configs, store >>

DoPredict(model_id, input_data) ==
    /\ response = Idle
    /\ response' = Respond("predict", [model_id |-> model_id, input_data |-> input_data],
                           Predict(models, model_id, input_data))
    /\ UNCHANGED << models, cache, runs, calls, configs, store >>

DoPredictWithUncertainty(model_id, input_data) ==
    /\ response = Idle
    /\ response' = Respond("predict_with_uncertainty",
                           [model_id |-> model_id, input_data |-> input_data],
                           PredictWithUncertainty(models, model_id, input_data))
    /\ UNCHANGED << models, cache, runs, calls, configs, store >>

DoGetMetrics(model_id) ==
    /\ response = Idle
    /\ response' = Respond("get_metrics", [model_id |-> model_id], GetMetrics(models, model_id))
    /\ UNCHANGED << models, cache, runs, calls, configs, store >>

DoListModels ==
    /\ response = Idle
    /\ response' = Respond("list_models", <<>>, Return(ListModels(models)))
    /\ UNCHANGED << models, cache, runs, calls, configs, store >>

\* an operation that starts with data = self.compute_shap_values(model_id)
WithShapValues(op, req, Then(_)) ==
    \E r \in {ComputeShapValues(models, cache, req.model_id)} :
        /\ cache' = r.cache
        /\ runs' = IF r.ran THEN [runs EXCEPT ![req.model_id] = @ + 1] ELSE runs
        /\ response' = Respond(op, req, IF r.out.ok THEN Then(r.out.value) ELSE r.out)
        /\ UNCHANGED << models, calls, configs, store >>

DoComputeShapValues(model_id) ==
    /\ response = Idle
    /\ WithShapValues("compute_shap_values", [model_id |-> model_id], LAMBDA data : Return(data))

DoGetSummaryPlotData(model_id) ==
    /\ response = Idle
    /\ WithShapValues("get_summary_plot_data", [model_id |-> model_id],
                      LAMBDA data : Return(SummaryPlotData(model_id, data)))

DoGetFeatureImportance(model_id) ==
    /\ response = Idle
    /\ WithShapValues("get_feature_importance", [model_id |-> model_id],
                      LAMBDA data : Return(FeatureImportance(model_id, data)))

\* get_dependence_data checking the feature of a registered model before it
\* computes anything
DoGetDependenceDataValidatingFirst(model_id, feature) ==
    /\ response = Idle
    /\ IF model_id \in Keys(models) /\ feature \notin FeatureSet
       THEN /\ response' = Respond("get_dependence_data",
                                   [model_id |-> model_id, feature |-> feature],
                                   Raise("ValueError", "Feature not found", feature))
            /\ UNCHANGED << models, cache, runs, calls, configs, store >>
       ELSE WithShapValues("get_dependence_data",
                           [model_id |-> model_id, feature |-> feature],
                           LAMBDA data : DependenceData(model_id, feature, data))

DoGetDependenceData(model_id, feature) ==
    /\ response = Idle
    /\ WithShapValues("get_dependence_data", [model_id |-> model_id, feature |-> feature],
                      LAMBDA data : DependenceData(model_id, feature, data))

DoExplainPrediction(model_id, input_data) ==
    /\ response = Idle
    /\ response' = Respond("explain_prediction",
                           [model_id |-> model_id, input_data |-> input_data],
                           ExplainPrediction(models, model_id, input_data))
    /\ UNCHANGED << models, cache, runs, calls, configs, store >>

DoGetTopShap(model_id, input_data, top_n) ==
    /\ response = Idle
    /\ response' = Respond("get_top_shap",
                           [model_id |-> model_id, input_data |-> input_data,
                            top_n |-> top_n],
                           GetTopShap(models, model_id, input_data, top_n))
    /\ UNCHANGED << models, cache, runs, calls, configs, store >>

Explored(op, req, r) ==
    [op |-> op, req |-> req, out |-> r.out, evaluated |-> r.evaluated]

DoParametricSweep(req) ==
    /\ response = Idle
    /\ response' = Explored("parametric_sweep", req, ParametricSweep(models, req))
    /\ UNCHANGED << models, cache, runs, calls, configs, store >>

DoMultivariableExploration(req) ==
    /\ response = Idle
    /\ response' = Explored("multivariable_exploration", req,
                            MultivariableExploration(models, req))
    /\ UNCHANGED << models, cache, runs, calls, configs, store >>

\* compare_configurations computing the model's attribution data on the way
DoCompareConfigurationsCaching(req) ==
    /\ response = Idle
    /\ response' = Explored("compare_configurations", req, CompareConfigurations(models, req))
    /\ cache' = ComputeShapValues(models, cache, req.model_id).cache
    /\ UNCHANGED << models, runs, calls, configs, store >>

DoCompareConfigurations(req) ==
    /\ response = Idle
    /\ response' = Explored("compare_configurations", req, CompareConfigurations(models, req))
    /\ UNCHANGED << models, cache, runs, calls, configs, store >>

\* the caller takes the response
Deliver ==
    /\ response # Idle
    /\ response' = Idle
    /\ UNCHANGED << models, cache, runs, calls, configs, store >>

\* The whole system: every operation, on a registry of up to two ids.
Next ==
    \/ \E req \in FewTrainRequests, fit \in FitOutcomes, model_id \in Ids :
            DoTrain(req, fit, model_id)
    \/ \E model_id \in RequestIds : DoPredict(model_id, SampleInput)
    \/ \E model_id \in RequestIds : DoPredictWithUncertainty(model_id, SampleInput)
    \/ \E model_id \in RequestIds : DoGetMetrics(model_id)
    \/ DoListModels
    \/ \E model_id \in RequestIds : DoComputeShapValues(model_id)
    \/ \E model_id \in RequestIds : DoGetSummaryPlotData(model_id)
    \/ \E model_id \in RequestIds : DoGetFeatureImportance(model_id)
    \/ \E model_id \in RequestIds, feature \in {"cement", "slump"} :
            DoGetDependenceData(model_id, feature)
    \/ \E model_id \in RequestIds, input_data \in Inputs :
            DoExplainPrediction(model_id, input_data)
    \/ \E req \in { SweepRequest(m, PartialInput, "cement", <<Q(0), Q(2)>>, MaxSteps) :
                        m \in RequestIds }
                    \cup { SweepRequest("m1", PartialInput, "cement", <<Q(2), Q(0)>>, 0) } :
            DoParametricSweep(req)
    \/ \E req \in { MultivariableRequest(m, PartialInput,
                                          <<VarRange("cement", 0, 2, 2),
                                            VarRange("age", 0, 1, 2)>>) : m \in RequestIds }
                    \cup { MultivariableRequest("m1", PartialInput,
                                                <<VarRange("cement", 0, 2, 2)>>) } :
            DoMultivariableExploration(req)
    \/ \E req \in { CompareRequest(m, <<PartialInput, SampleInput>>, <<"A", "B">>) :
                        m \in RequestIds } :
            DoCompareConfigurations(req)
    \/ Deliver

Spec == Init /\ [][Next]_vars

\* The registry and the predictions: every algorithm, one id.
NextPredict ==
    \/ \E req \in TrainRequests, fit \in FitOutcomes : DoTrain(req, fit, "m1")
    \/ \E model_id \in {"m1", "nonexistent"}, input_data \in PredictInputs :
            DoPredict(model_id, input_data)
    \/ \E model_id \in {"m1", "nonexistent"}, input_data \in PredictInputs :
            DoPredictWithUncertainty(model_id, input_data)
    \/ \E model_id \in {"m1", "nonexistent"} : DoGetMetrics(model_id)
    \/ DoListModels
    \/ Deliver

SpecPredict == Init /\ [][NextPredict]_vars

\* The exploration engine: every algorithm, one id, the full request sets.
NextExplore ==
    \/ \E req \in TrainRequests, fit \in FitOutcomes : DoTrain(req, fit, "m1")
    \/ \E req \in SweepRequests : DoParametricSweep(req)
    \/ \E req \in MultivariableRequests : DoMultivariableExploration(req)
    \/ \E req \in CompareRequests : DoCompareConfigurations(req)
    \/ \E model_id \in {"m1", "nonexistent"}, input_data \in PredictInputs,
          top_n \in -1..MaxTopN :
            DoGetTopShap(model_id, input_data, top_n)
    \/ Deliver

SpecExplore == Init /\ [][NextExplore]_vars

DoSave(req, config_id) ==
    /\ response = Idle
    /\ \E r \in {Save(configs, req, config_id)} :
          /\ configs' = r.configs
          /\ store' = r.store
          /\ response' = Respond("save", req, r.out)
    /\ UNCHANGED << models, cache, runs, calls >>

DoMarkAsValidationCandidate(config_id) ==
    /\ response = Idle
    /\ \E r \in {MarkAsValidationCandidate(configs, store, config_id)} :
          /\ configs' = r.configs
          /\ store' = r.store
          /\ response' = Respond("mark_as_validation_candidate",
                                 [config_id |-> config_id], r.out)
    /\ UNCHANGED << models, cache, runs, calls >>

DoDelete(config_id) ==
    /\ response = Idle
    /\ \E r \in {Delete(configs, store, config_id)} :
          /\ configs' = r.configs
          /\ store' = r.store
          /\ response' = Respond("delete", [config_id |-> config_id], r.out)
    /\ UNCHANGED << models, cache, runs, calls >>

\* ConfigurationService(): the dict is what _load_from_disk reads from the
\* file a former run left, if any: none, a text that is no JSON, an array
\* with an object that has no "id", or what a service saved.
InitConfig ==
    /\ models = <<>>
    /\ cache = <<>>
    /\ runs = [m \in RequestIds |-> 0]
    /\ response = Idle
    /\ calls = [t \in Callers |-> [pc |-> "idle"]]
    /\ store \in
          { [exists |-> FALSE],
            [exists |-> TRUE, text |-> [valid |-> FALSE]],
            [exists |-> TRUE,
             text |-> [valid |-> TRUE,
                       array |-> << [label |-> [json |-> "string", chars |-> "A"]] >>]],
            Save(<<>>, [label |-> "A", values |-> [f \in {"cement"} |-> Q(3000000)],
                        model_id |-> "m1", predicted_strength |-> Q(355000),
                        lower_bound |-> Absent, upper_bound |-> Absent,
                        is_candidate |-> FALSE], "c0").store }
    /\ configs = LoadFromDisk(store)

\* The saved configurations, on ids that may repeat.
NextConfig ==
    \/ \E label \in {"A", "B"}, bound \in {Absent, Rat(600001, 2)},
          is_candidate \in BOOLEAN, config_id \in {"c1", "c2"} :
            DoSave([label |-> label,
                    values |-> [f \in {"cement", "water"} |->
                                   IF f = "cement" THEN Q(3000000) ELSE Rat(3600001, 2)],
                    model_id |-> "m1", predicted_strength |-> Rat(711111, 2),
                    lower_bound |-> bound, upper_bound |-> bound,
                    is_candidate |-> is_candidate], config_id)
    \/ \E config_id \in {"c0", "c1", "c2", "unknown"} :
            DoMarkAsValidationCandidate(config_id)
    \/ \E config_id \in {"c0", "c1", "c2", "unknown"} : DoDelete(config_id)
    \/ Deliver

SpecConfig == InitConfig /\ [][NextConfig]_vars

\* The dependence data of every feature, for models that use the features
\* and for one that fitting left constant (all coefficients zero, as a
\* strongly regularised lasso).
NextDependence ==
    \/ \E req \in FewTrainRequests \cup {TrainRequest("lasso", 10)},
          fit \in FitOutcomes \cup {[reg |-> Constant(9), spread |-> Q(0),
                                     q05 |-> Constant(9), q95 |-> Constant(9)]} :
            DoTrain(req, fit, "m1")
    \/ \E model_id \in {"m1", "nonexistent"}, feature \in FeatureSet \cup {"slump"} :
            DoGetDependenceData(model_id, feature)
    \/ Deliver

SpecDependence == Init /\ [][NextDependence]_vars

\* XAIService.compute_shap_values called from the thread pool that serves the
\* routes: a call is the cache lookup, the computation on the registry entry
\* and the cache insertion, and other threads run between them.

\* lines 17-18: the lookup; a hit returns the cached entry
EnterCompute(t, model_id) ==
    /\ calls[t].pc = "idle"
    /\ calls' = [calls EXCEPT ![t] =
                    IF model_id \in DOMAIN cache
                    THEN [pc |-> "done", model_id |-> model_id,
                          out |-> Return(cache[model_id])]
                    ELSE [pc |-> "miss", model_id |-> model_id]]
    /\ UNCHANGED << models, cache, runs, response, configs, store >>

\* lines 20-44: get_model_entry, the explainer, the result
RunExplainer(t) ==
    /\ calls[t].pc = "miss"
    /\ \E got \in {GetModelEntry(models, calls[t].model_id)} :
          IF ~got.ok
          THEN /\ calls' = [calls EXCEPT ![t] =
                               [pc |-> "done", model_id |-> calls[t].model_id, out |-> got]]
               /\ runs' = runs
          ELSE /\ calls' = [calls EXCEPT ![t] =
                               [pc |-> "computed", model_id |-> calls[t].model_id,
                                result |-> ComputeEntry(got.value)]]
               /\ runs' = [runs EXCEPT ![calls[t].model_id] = @ + 1]
    /\ UNCHANGED << models, cache, response, configs, store >>

\* lines 45-46: self._cache[model_id] = result; return result
InsertResult(t) ==
    /\ calls[t].pc = "computed"
    /\ \E r \in {Cached(cache, calls[t].model_id, calls[t].result)} :
          /\ cache' = r.cache
          /\ calls' = [calls EXCEPT ![t] =
                          [pc |-> "done", model_id |-> calls[t].model_id, out |-> r.out]]
    /\ UNCHANGED << models, runs, response, configs, store >>

\* routers/explanations.py, compute_shap: the call is over
ReturnToCaller(t) ==
    /\ calls[t].pc = "done"
    /\ calls' = [calls EXCEPT ![t] = [pc |-> "idle"]]
    /\ UNCHANGED << models, cache, runs, response, configs, store >>

\* Two threads computing attribution data while models are trained.
NextConcurrent ==
    \/ \E req \in FewTrainRequests, fit \in FitOutcomes : DoTrain(req, fit, "m1")
    \/ Deliver
    \/ \E t \in Callers, model_id \in {"m1", "nonexistent"} : EnterCompute(t, model_id)
    \/ \E t \in Callers : RunExplainer(t)
    \/ \E t \in Callers : InsertResult(t)
    \/ \E t \in Callers : ReturnToCaller(t)

SpecConcurrent == Init /\ [][NextConcurrent]_vars

\* the row counts of the larger data sets: more training rows than the
\* explainer's background holds, more held-out rows than are attributed
MaxTrainRows == 101
MaxTestRows == 51

\* ModelService.__init__ / _load_all: the registry starts with the entries
\* unpickled from the storage bucket, one per "<model_id>.pkl", whatever
\* they hold.  A bucket may hold a gradient_boosting entry pickled without
\* the two quantile regressors, or an entry trained on a larger data set.
WithoutQuantileModels(entry) ==
    [f \in DOMAIN entry \ {"quantile_lower", "quantile_upper"} |-> entry[f]]
Buckets ==
    { <<>> }
    \cup { << [name |-> "m0.pkl",
               data |-> WithoutQuantileModels(
                            TrainEntry(TrainRequest("gradient_boosting", 10),
                                       BuildModel(TrainRequest("gradient_boosting", 10)).value,
                                       fit))] >> : fit \in FitOutcomes }
    \cup { << [name |-> "m0.pkl",
               data |-> TrainEntry(TrainRequest("gradient_boosting", 10),
                                   BuildModel(TrainRequest("gradient_boosting", 10)).value,
                                   fit)],
              [name |-> "notes.txt", data |-> <<>>] >> : fit \in FitOutcomes }
    \cup { << [name |-> "m0.pkl",
               data |-> TrainEntryOn(LargeSplit(MaxTrainRows - less, MaxTestRows - less),
                                     TrainRequest(a, 10),
                                     BuildModel(TrainRequest(a, 10)).value, fit)] >> :
            a \in {"ridge", "random_forest"}, less \in {0, 1},
            fit \in {f \in FitOutcomes : f.reg = RisingReg} }

\* ModelService._load_all, lines 54-61; name[:-4] of the one ".pkl" name of
\* Buckets is "m0"
RECURSIVE LoadAll(_)
LoadAll(files) ==
    IF files = <<>> THEN <<>>
    ELSE IF files[Len(files)].name # "m0.pkl"
    THEN LoadAll(SubSeq(files, 1, Len(files) - 1))
    ELSE Assign(LoadAll(SubSeq(files, 1, Len(files) - 1)),
                "m0", files[Len(files)].data)

InitLoaded ==
    /\ models \in {LoadAll(files) : files \in Buckets}
    /\ cache = <<>>
    /\ runs = [m \in RequestIds \cup {"m0"} |-> 0]
    /\ response = Idle
    /\ calls = [t \in Callers |-> [pc |-> "idle"]]
    /\ configs = <<>>
    /\ store = [exists |-> FALSE]

\* Explanations, their uncertainty and the attribution data on a registry
\* loaded from storage.
NextLoaded ==
    \/ \E req \in FewTrainRequests \cup {TrainRequest("gradient_boosting", 10)},
          fit \in FitOutcomes :
            DoTrain(req, fit, "m1")
    \/ \E model_id \in {"m0", "m1", "nonexistent"}, input_data \in PredictInputs :
            DoPredictWithUncertainty(model_id, input_data)
    \/ \E model_id \in {"m0", "m1", "nonexistent"}, input_data \in PredictInputs :
            DoExplainPrediction(model_id, input_data)
    \/ \E model_id \in {"m0", "m1", "nonexistent"} : DoComputeShapValues(model_id)
    \/ Deliver

SpecLoaded == InitLoaded /\ [][NextLoaded]_vars

----------------------------------------------------------------------------
(* Properties.                                                             *)

Answered(op) == response.op = op /\ response.out.ok

\* C1: every answer of predict_with_uncertainty has
\* lower_bound <= prediction <= upper_bound, whatever the model's family.
C1_PredictionInsideBand ==
    Answered("predict_with_uncertainty") =>
        LET v == response.out.value
        IN  /\ QLe(v.uncertainty.lower_bound, v.prediction)
            /\ QLe(v.prediction, v.uncertainty.upper_bound)

\* the id a response is about
About(model_id) == response.req.model_id = model_id

\* the operations that start with compute_shap_values, and what each makes
\* of the computed data
FromShapValues(op, req, data) ==
    CASE op = "compute_shap_values" -> Return(data)
      [] op = "get_summary_plot_data" -> Return(SummaryPlotData(req.model_id, data))
      [] op = "get_feature_importance" -> Return(FeatureImportance(req.model_id, data))
      [] op = "get_dependence_data" -> DependenceData(req.model_id, req.feature, data)
ShapOps ==
    {"compute_shap_values", "get_summary_plot_data", "get_feature_importance",
     "get_dependence_data"}

\* C2: the attribution data of a model id is computed at most once.  A step
\* never changes or removes a cache entry and never runs the explainer for an
\* id that has one; a call that goes through compute_shap_values answers from
\* the entry then cached.
C2_ComputedOnce ==
    [][ /\ \A id \in DOMAIN cache :
              /\ id \in DOMAIN cache'
              /\ cache'[id] = cache[id]
              /\ runs'[id] = runs[id]
        /\ \A id \in RequestIds : runs'[id] <= 1
        /\ \A id \in DOMAIN cache' : runs'[id] = 1
        /\ (response'.op \in ShapOps /\ response'.req.model_id \in DOMAIN cache') =>
              response'.out = FromShapValues(response'.op, response'.req,
                                             cache'[response'.req.model_id])
      ]_vars

\* C2 witness: model m1 was trained again after its data were computed, and
\* get_feature_importance has just answered from the entry computed before.
C2_ReusedAfterRetrain ==
    /\ "m1" \in DOMAIN cache
    /\ "m1" \in Keys(models)
    /\ cache["m1"] # ComputeEntry(Lookup(models, "m1"))
    /\ runs["m1"] = 1
    /\ Answered("get_feature_importance")
    /\ About("m1")
    /\ response.out.value = FeatureImportance("m1", cache["m1"])

\* the band predict_with_uncertainty answers, rounded as returned
ReturnedBand(band) ==
    [lower_bound |-> Round4(band.lower), upper_bound |-> Round4(band.upper),
     std_dev |-> Round4(band.std_dev), confidence |-> Rat(95, 100)]

\* the band of the two quantile side-models of an entry
QuantileBand(entry, x) ==
    LET lower == ModelPredictRow(entry.quantile_lower, x)
        upper == ModelPredictRow(entry.quantile_upper, x)
    IN  [lower |-> lower, upper |-> upper,
         std_dev |-> QDiv(QSub(upper, lower), Rat(392, 100))]

HasQuantileModels(entry) ==
    "quantile_lower" \in DOMAIN entry /\ "quantile_upper" \in DOMAIN entry
HasNoQuantileModel(entry) ==
    "quantile_lower" \notin DOMAIN entry /\ "quantile_upper" \notin DOMAIN entry

\* Entries of the algorithms in `family`, and only they, hold the two
\* quantile side-models, and predict_with_uncertainty on them answers the
\* side-models' band.
QuantileModelsServe(family) ==
    /\ \A i \in 1..Len(models) :
          IF models[i].value.algorithm \in family
          THEN HasQuantileModels(models[i].value)
          ELSE HasNoQuantileModel(models[i].value)
    /\ Answered("predict_with_uncertainty") =>
          LET entry == Lookup(models, response.req.model_id)
              x == Project(response.req.input_data, entry.feature_names).value
          IN  entry.algorithm \in family =>
                  /\ HasQuantileModels(entry)
                  /\ response.out.value.uncertainty = ReturnedBand(QuantileBand(entry, x))

C10_UnknownAlgorithmRejected ==
    [][ response'.op = "train" =>
            IF response'.req.algorithm \in Algorithms
            THEN /\ response'.out.ok
                 /\ response'.out.value.algorithm = response'.req.algorithm
                 /\ response'.out.value.model_id \in Keys(models')
            ELSE /\ ~response'.out.ok
                 /\ response'.out.error.type = "ValueError"
                 /\ response'.out.error.msg = "Unknown algorithm"
                 /\ response'.out.error.arg = response'.req.algorithm
                 /\ models' = models
      ]_vars

\* C10 witness: a train call with an unknown name has failed on a registry
\* that holds a model.
C10_RejectedOnPopulatedRegistry ==
    /\ response.op = "train"
    /\ response.req.algorithm \notin Algorithms
    /\ ~response.out.ok
    /\ Len(models) > 0

\* a configuration with every canonical feature it lacks set to 0
Filled(config) ==
    [f \in FeatureSet \cup DOMAIN config |-> IF f \in DOMAIN config THEN config[f] ELSE Q(0)]

\* sample i of n evenly spaced samples from lo to hi, ends included
Sample(lo, hi, n, i) ==
    IF n = 1 THEN lo ELSE QAdd(lo, QDiv(QMul(Q(i - 1), QSub(hi, lo)), Q(n - 1)))

StrictlyIncreasing(s) == \A i \in 1..(Len(s) - 1) : QLt(s[i], s[i + 1])
NonDecreasing(s) == \A i \in 1..(Len(s) - 1) : QLe(s[i], s[i + 1])
FeatureValues(points) == [i \in 1..Len(points) |-> points[i].feature_value]

Registered(model_id) == model_id \in Keys(models)

\* C3 as stated: parametric_sweep on a registered model fails when steps < 1
\* or min >= max, returning no points and evaluating no prediction.
C3_InvalidRangeRejected ==
    (/\ response.op = "parametric_sweep"
     /\ Registered(response.req.model_id)
     /\ (response.req.steps < 1 \/ QLe(response.req.max_val, response.req.min_val))) =>
        /\ ~response.out.ok
        /\ response.evaluated = <<>>

C5_OptimalRegionMeetsThreshold ==
    (Answered("parametric_sweep") /\ response.out.value.points # <<>>) =>
        LET points == response.out.value.points
            region == response.out.value.optimal_region
            meets == {i \in 1..Len(points) :
                        QLe(QMul(Rat(9, 10), region.best_prediction), points[i].prediction)}
        IN  /\ \E i \in 1..Len(points) : points[i].prediction = region.best_prediction
            /\ \A i \in 1..Len(points) : QLe(points[i].prediction, region.best_prediction)
            /\ \E i \in meets : points[i].feature_value = region.start
            /\ \E i \in meets : points[i].feature_value = region.end
            /\ \A i \in meets : /\ QLe(region.start, points[i].feature_value)
                                /\ QLe(points[i].feature_value, region.end)

\* C6: compare_configurations answers min(len(configurations), len(labels))
\* results in input order; result i carries labels[i] and the prediction and
\* bounds predict_with_uncertainty gives for configurations[i] with every
\* canonical feature it lacks set to 0; what is beyond the shorter list is
\* dropped without an error.
C6_OneResultPerPair ==
    (response.op = "compare_configurations" /\ Registered(response.req.model_id)) =>
        LET req == response.req
            n == IF Len(req.configurations) <= Len(req.labels)
                 THEN Len(req.configurations) ELSE Len(req.labels)
        IN  /\ response.out.ok
            /\ Len(response.out.value.results) = n
            /\ Len(response.evaluated) = n
            /\ \A i \in 1..n :
                  LET result == response.out.value.results[i]
                      u == PredictWithUncertainty(models, req.model_id,
                                                  Filled(req.configurations[i])).value
                  IN  /\ response.evaluated[i] = Filled(req.configurations[i])
                      /\ result.label = req.labels[i]
                      /\ result.prediction = u.prediction
                      /\ result.lower_bound = u.uncertainty.lower_bound
                      /\ result.upper_bound = u.uncertainty.upper_bound

\* C6 witness: three configurations compared under two different labels have
\* given two results.
C6_SurplusConfigurationDropped ==
    /\ Answered("compare_configurations")
    /\ Len(response.req.configurations) = 3
    /\ Len(response.req.labels) = 2
    /\ response.req.labels[1] # response.req.labels[2]
    /\ response.req.configurations[1] # response.req.configurations[2]
    /\ Len(response.out.value.results) = 2

Rounded(s) == [i \in 1..Len(s) |-> Round4(s[i])]

\* C7 as stated: the grid has n1 rows of n0 columns, there are two axis
\* arrays of lengths n0 and n1, and cell [i][j] is predict on base_config
\* with r0.feature = axis0[j], r1.feature = axis1[i] and 0 for the canonical
\* features it lacks.
C7_GridOverTwoAxes ==
    Answered("multivariable_exploration") =>
        LET req == response.req
            r0 == req.variable_ranges[1]
            r1 == req.variable_ranges[2]
            out == response.out.value
            axis0 == out.axes[r0.feature]
            axis1 == out.axes[r1.feature]
        IN  /\ Cardinality(DOMAIN out.axes) = 2
            /\ Len(axis0) = r0.steps
            /\ Len(axis1) = r1.steps
            /\ Len(out.predictions) = r1.steps
            /\ \A i \in 1..r1.steps :
                  /\ Len(out.predictions[i]) = r0.steps
                  /\ \A j \in 1..r0.steps :
                        out.predictions[i][j] =
                            Predict(models, req.model_id,
                                    Filled([f \in DOMAIN req.base_config
                                                    \cup {r0.feature, r1.feature} |->
                                               IF f = r1.feature THEN axis1[i]
                                               ELSE IF f = r0.feature THEN axis0[j]
                                               ELSE req.base_config[f]])).value

\* C7 amended: the grid has n1 rows of n0 columns; cell [i][j] is predict on
\* base_config with r0.feature set to the unrounded sample j of r0 and then
\* r1.feature set to the unrounded sample i of r1, and 0 for the canonical
\* features it lacks; axes maps r1.feature to r1's n1 samples rounded to four
\* decimals and, when the two features differ, r0.feature to r0's n0 rounded
\* samples (one array only when both ranges name the same feature); ranges
\* of 5 and 5 steps give 5 rows of 5 columns.
C7_GridOverSamples ==
    Answered("multivariable_exploration") =>
        LET req == response.req
            r0 == req.variable_ranges[1]
            r1 == req.variable_ranges[2]
            out == response.out.value
            vals0 == [j \in 1..r0.steps |-> Sample(r0.min_val, r0.max_val, r0.steps, j)]
            vals1 == [i \in 1..r1.steps |-> Sample(r1.min_val, r1.max_val, r1.steps, i)]
            input(i, j) ==
                Filled([f \in DOMAIN req.base_config \cup {r0.feature, r1.feature} |->
                           IF f = r1.feature THEN vals1[i]
                           ELSE IF f = r0.feature THEN vals0[j]
                           ELSE req.base_config[f]])
        IN  /\ Len(out.predictions) = r1.steps
            /\ \A i \in 1..r1.steps :
                  /\ Len(out.predictions[i]) = r0.steps
                  /\ \A j \in 1..r0.steps :
                        /\ response.evaluated[i][j] = input(i, j)
                        /\ out.predictions[i][j]
                              = Predict(models, req.model_id, input(i, j)).value
            /\ DOMAIN out.axes = {r0.feature, r1.feature}
            /\ out.axes[r1.feature] = Rounded(vals1)
            /\ r0.feature # r1.feature => out.axes[r0.feature] = Rounded(vals0)
            /\ out.variable_names = <<r0.feature, r1.feature>>
            /\ (r0.steps = 5 /\ r1.steps = 5) =>
                  /\ Len(out.predictions) = 5
                  /\ \A i \in 1..5 : Len(out.predictions[i]) = 5

\* C7 witness: a grid over two different features with different step
\* counts, whose predictions change along both axes, has been answered.
C7_GridAnswered ==
    /\ Answered("multivariable_exploration")
    /\ response.req.variable_ranges[1].feature # response.req.variable_ranges[2].feature
    /\ response.req.variable_ranges[1].steps = 2
    /\ response.req.variable_ranges[2].steps = 3
    /\ response.out.value.predictions[1][1] # response.out.value.predictions[1][2]
    /\ response.out.value.predictions[1][1] # response.out.value.predictions[3][1]

\* C8: multivariable_exploration on an unregistered id raises "Model not
\* found" whatever the ranges; on a registered id with fewer than two ranges
\* it raises "Need at least 2 variable ranges" and predicts nothing; with
\* more than two ranges it answers what it answers for the first two alone.
C8_TwoRangesNeededAndUsed ==
    response.op = "multivariable_exploration" =>
        LET req == response.req
            n == Len(req.variable_ranges)
        IN  /\ ~Registered(req.model_id) =>
                  /\ ~response.out.ok
                  /\ response.out.error.msg = "Model not found"
                  /\ response.out.error.arg = req.model_id
            /\ (Registered(req.model_id) /\ n < 2) =>
                  /\ ~response.out.ok
                  /\ response.out.error.type = "ValueError"
                  /\ response.out.error.msg = "Need at least 2 variable ranges"
                  /\ response.evaluated = <<>>
            /\ (Registered(req.model_id) /\ n > 2) =>
                  LET two == MultivariableExploration(models,
                                 [req EXCEPT !.variable_ranges = SubSeq(@, 1, 2)])
                  IN  /\ response.out.ok = two.out.ok
                      /\ response.out.ok =>
                            /\ response.out.value.predictions = two.out.value.predictions
                            /\ response.out.value.axes = two.out.value.axes
                      /\ response.evaluated = two.evaluated

\* C8 witness: three ranges were given, the third on the feature of the
\* second with other values, and a grid has been answered.
C8_ThirdRangeIgnored ==
    /\ Answered("multivariable_exploration")
    /\ Len(response.req.variable_ranges) = 3
    /\ response.req.variable_ranges[3].feature = response.req.variable_ranges[2].feature
    /\ response.req.variable_ranges[3] # response.req.variable_ranges[2]

----------------------------------------------------------------------------
(* The registry over time.                                                 *)

\* the step is a train call that succeeds
Trained == response = Idle /\ response'.op = "train" /\ response'.out.ok

\* the entry a train call builds is the one in the registry under id
BuiltBy(req, registry, id) ==
    \E fit \in FitOutcomes :
        Lookup(registry, id) = TrainEntry(req, BuildModel(req).value, fit)

\* C11: a successful train call stores its entry under an id that was not
\* registered before: the registry grows by exactly one entry, every entry
\* it held stays as it was, and the returned id maps to the entry the call
\* built (so n calls leave n entries under pairwise distinct ids).
C11_TrainAddsFreshEntry ==
    [][ Trained =>
            LET id == response'.out.value.model_id
            IN  /\ id \notin Keys(models)
                /\ Len(models') = Len(models) + 1
                /\ \A k \in Keys(models) : Lookup(models', k) = Lookup(models, k)
                /\ BuiltBy(response'.req, models', id) ]_vars

\* C11, what the code keeps: the returned id maps to the entry the call
\* built, one entry per id, and the entries under every other id stay.
C11_TrainStoresItsEntry ==
    [][ Trained =>
            LET id == response'.out.value.model_id
            IN  /\ BuiltBy(response'.req, models', id)
                /\ Cardinality(Keys(models')) = Len(models')
                /\ Keys(models') = Keys(models) \cup {id}
                /\ \A k \in Keys(models) \ {id} :
                        Lookup(models', k) = Lookup(models, k) ]_vars

\* two successful train calls have left two entries
C11_TwoTrained == Answered("train") /\ Len(models) = 2

----------------------------------------------------------------------------
(* Failures and the identifiers they carry.                                *)

\* the call raised an error of this type and message about this identifier
Failed(out, type, msg, arg) ==
    ~out.ok /\ out.error = [type |-> type, msg |-> msg, arg |-> arg]

ModelNotFound(out, model_id) == Failed(out, "ValueError", "Model not found", model_id)

\* the canonical features an input lacks
Missing(input_data) == FeatureSet \ DOMAIN input_data

\* C13: predict fails with "model not found" for an unregistered id whatever
\* the input; otherwise with a missing-feature error naming a feature the
\* input lacks; otherwise it answers the model's prediction for the input's
\* values in canonical order, rounded, other keys ignored.  get_metrics on
\* an unregistered id fails with "model not found".
C13_PredictChecksIdThenFeatures ==
    /\ response.op = "predict" =>
          LET req == response.req
              out == response.out
          IN  IF req.model_id \notin Keys(models)
              THEN ModelNotFound(out, req.model_id)
              ELSE IF Missing(req.input_data) # {}
              THEN \E f \in Missing(req.input_data) :
                       Failed(out, "KeyError", "missing key", f)
              ELSE /\ out.ok
                   /\ out.value =
                        Round4(ModelPredictRow(
                            Lookup(models, req.model_id).model,
                            [j \in 1..NumFeatures |-> req.input_data[FeatureNames[j]]]))
    /\ (response.op = "get_metrics" /\ response.req.model_id \notin Keys(models))
          => ModelNotFound(response.out, response.req.model_id)

\* predict has answered for an input that carries a key outside the feature list
C13_PredictedWithExtraKey ==
    /\ Answered("predict")
    /\ DOMAIN response.req.input_data \ FeatureSet # {}

----------------------------------------------------------------------------
(* Feature importance.                                                     *)

\* the position of a feature in the canonical order
Position(feature) == CHOOSE j \in 1..NumFeatures : FeatureNames[j] = feature

\* the list names every canonical feature exactly once and nothing else
CoversFeaturesOnce(items) ==
    /\ Len(items) = NumFeatures
    /\ {items[i].feature : i \in 1..Len(items)} = FeatureSet

\* C14 as stated: the importances cover the model's features once each and
\* each importance is greater than the next one's.
C14_StrictlyDescending ==
    Answered("get_feature_importance") =>
        LET imp == response.out.value.importances
        IN  /\ CoversFeaturesOnce(imp)
            /\ \A i \in 1..(Len(imp) - 1) :
                    QLt(imp[i + 1].importance, imp[i].importance)

\* C14: the importances cover the model's features once each and never
\* increase down the list; features of equal importance stand in canonical
\* feature order.
C14_DescendingTiesInOrder ==
    Answered("get_feature_importance") =>
        LET imp == response.out.value.importances
        IN  /\ CoversFeaturesOnce(imp)
            /\ \A i \in 1..(Len(imp) - 1) :
                    /\ QLe(imp[i + 1].importance, imp[i].importance)
                    /\ imp[i + 1].importance = imp[i].importance
                          => Position(imp[i].feature) < Position(imp[i + 1].feature)

\* importances were answered with a strict descent and with a tie
C14_AnsweredWithTie ==
    /\ Answered("get_feature_importance")
    /\ \E i \in 1..(NumFeatures - 1) :
            response.out.value.importances[i].importance =
                response.out.value.importances[i + 1].importance
    /\ \E i \in 1..(NumFeatures - 1) :
            QLt(response.out.value.importances[i + 1].importance,
                response.out.value.importances[i].importance)

----------------------------------------------------------------------------
(* Explanations.                                                           *)

\* C15: explain_prediction fails only as the explanation itself fails (an
\* unregistered id, a feature the input lacks).  Otherwise it answers the
\* prediction, base value, contributions and summary, with the band
\* predict_with_uncertainty returns for the same id and input when that call
\* succeeds, and with no band (None) when that call fails.
C15_UncertaintyBestEffort ==
    response.op = "explain_prediction" =>
        LET req == response.req
            out == response.out
            unc == PredictWithUncertainty(models, req.model_id, req.input_data)
        IN  IF req.model_id \notin Keys(models)
            THEN ModelNotFound(out, req.model_id)
            ELSE IF Missing(req.input_data) # {}
            THEN \E f \in Missing(req.input_data) :
                     Failed(out, "KeyError", "missing key", f)
            ELSE /\ out.ok
                 /\ DOMAIN out.value =
                        {"model_id", "prediction", "base_value", "waterfall",
                         "interpretation", "uncertainty"}
                 /\ CoversFeaturesOnce(out.value.waterfall)
                 /\ out.value.prediction =
                        Predict(models, req.model_id, req.input_data).value
                 /\ out.value.uncertainty =
                        IF unc.ok THEN unc.value.uncertainty ELSE None

\* an explanation was answered although predict_with_uncertainty fails for
\* the same id and input
C15_ExplainedWithoutBand ==
    /\ Answered("explain_prediction")
    /\ response.out.value.uncertainty = None
    /\ ~PredictWithUncertainty(models, response.req.model_id,
                               response.req.input_data).ok

\* C16: get_dependence_data fails with "model not found" for an unregistered
\* id and with "feature not found" for a feature outside the model's list;
\* otherwise it answers one point per row of the cached attribution matrix,
\* point i holding (to four decimals) row i's value of the feature, row i's
\* attribution for the feature and row i's value of the colour feature.
C16_DependencePointPerRow ==
    response.op = "get_dependence_data" =>
        LET req == response.req
            out == response.out
        IN  IF req.model_id \notin Keys(models)
            THEN ModelNotFound(out, req.model_id)
            ELSE IF req.feature \notin FeatureSet
            THEN Failed(out, "ValueError", "Feature not found", req.feature)
            ELSE LET data == cache[req.model_id]
                     f == Position(req.feature)
                 IN  /\ out.ok
                     /\ out.value.feature = req.feature
                     /\ out.value.color_feature \in FeatureSet
                     /\ Len(out.value.points) = Len(data.shap_values)
                     /\ \A i \in 1..Len(data.shap_values) :
                            out.value.points[i] =
                                [feature_value |-> Round4(data.X_test[i][f]),
                                 shap_value |-> Round4(data.shap_values[i][f]),
                                 color_value |->
                                    Round4(data.X_test[i][Position(out.value.color_feature)])]

\* dependence points were answered for rows that differ in the feature
C16_DependenceAnswered ==
    /\ Answered("get_dependence_data")
    /\ Len(response.out.value.points) >= 2
    /\ response.out.value.points[1].feature_value # response.out.value.points[2].feature_value

\* the operations that name a model id
ModelOps ==
    {"predict", "predict_with_uncertainty", "get_metrics", "explain_prediction",
     "parametric_sweep", "multivariable_exploration", "compare_configurations"}
        \cup ShapOps
\* the operations that read input_data[f] for every feature of the model
RowOps == {"predict", "predict_with_uncertainty", "explain_prediction"}
\* the failures of np.linspace and of the two-ranges check, which name no identifier
RangeErrors == {"Number of samples must be non-negative", "Need at least 2 variable ranges"}

----------------------------------------------------------------------------
(* The list of models.                                                     *)

\* list_models answers with the summaries of the registry as it stands
ListsRegistry ==
    response'.op = "list_models" => response'.out = Return(ListModels(models'))

\* C18 as stated: list_models answers one summary per entry in insertion
\* order; every successful train call adds its summary (the id, algorithm,
\* hyperparameters and metrics it returned) at the end of the list, so that
\* k calls give k summaries in call order; no other step changes the list.
C18_TrainAppendsSummary ==
    [][ /\ ListsRegistry
        /\ IF Trained
           THEN ListModels(models') = Append(ListModels(models), response'.out.value)
           ELSE ListModels(models') = ListModels(models) ]_vars

\* C18, what the code keeps: list_models answers one summary per entry in
\* insertion order; the list never shrinks or reorders; a successful train
\* call under an id that is not registered adds its summary at the end.
C18_ListNeverShrinksOrReorders ==
    [][ /\ ListsRegistry
        /\ Len(ListModels(models')) = Len(models')
        /\ Len(models') >= Len(models)
        /\ \A i \in 1..Len(models) :
                ListModels(models')[i].model_id = ListModels(models)[i].model_id
        /\ (Trained /\ response'.out.value.model_id \notin Keys(models))
                => ListModels(models') = Append(ListModels(models), response'.out.value)
        /\ ~Trained => ListModels(models') = ListModels(models) ]_vars

\* list_models has answered two summaries
C18_TwoListed ==
    /\ Answered("list_models")
    /\ Len(response.out.value) = 2

----------------------------------------------------------------------------
\* C19: the attribution strategy is exact exactly for the four tree-ensemble
\* algorithms and sampled for every other one.  When a step caches the data
\* of a model, a sampled computation has a background of at most 100 rows,
\* all training rows, and a matrix of exactly min(50, held-out rows) rows,
\* each a distinct held-out row at the index the fixed seed gives; an exact
\* computation has one row per held-out row.
C19_StrategyAndCaps ==
    [][ \A id \in DOMAIN cache' \ DOMAIN cache :
          LET entry == Lookup(models, id)
              explainer == CreateExplainer(entry.model, entry.algorithm, entry.X_train)
              data == cache'[id]
              n == Len(entry.X_test)
              size == IF n < 50 THEN n ELSE 50
              indices == SeededChoice(n, size)
          IN  /\ \A a \in Algorithms :
                    (CreateExplainer(entry.model, a, entry.X_train).kind = "TreeExplainer")
                        <=> a \in {"random_forest", "gradient_boosting",
                                   "extra_trees", "adaboost"}
              /\ IF entry.algorithm \in {"random_forest", "gradient_boosting",
                                         "extra_trees", "adaboost"}
                 THEN /\ explainer.kind = "TreeExplainer"
                      /\ data.X_test = entry.X_test
                      /\ Len(data.shap_values) = n
                 ELSE /\ explainer.kind = "KernelExplainer"
                      /\ Len(explainer.background) <= 100
                      /\ \A i \in 1..Len(explainer.background) :
                            \E k \in 1..Len(entry.X_train) :
                                explainer.background[i] = entry.X_train[k]
                      /\ Len(data.shap_values) = size
                      /\ Len(data.X_test) = size
                      /\ \A i \in 1..size :
                            /\ indices[i] \in 1..n
                            /\ data.X_test[i] = entry.X_test[indices[i]]
                            /\ \A k \in 1..size : indices[i] = indices[k] => i = k
      ]_vars

\* C19 witness: the data of a ridge model with more than 50 held-out rows and
\* more than 100 training rows have just been computed, on 50 rows
C19_SampledFiftyOfMore ==
    /\ Answered("compute_shap_values")
    /\ response.req.model_id \in Keys(models) \cap DOMAIN cache
    /\ Lookup(models, response.req.model_id).algorithm = "ridge"
    /\ Len(Lookup(models, response.req.model_id).X_test) > 50
    /\ Len(Lookup(models, response.req.model_id).X_train) > 100
    /\ Len(cache[response.req.model_id].shap_values) = 50

----------------------------------------------------------------------------
\* the first n items of list are the items of top, in order
FirstOf(list, n, top) ==
    /\ Len(top) = n
    /\ n <= Len(list)
    /\ \A i \in 1..n : top[i] = list[i]

\* C20: for every top_n >= 0, get_top_shap answers exactly
\* min(top_n, number of the model's features) records, the first top_n of
\* the waterfall explain_prediction answers for the same model and input, in
\* descending order of absolute contribution; it fails exactly as
\* explain_prediction does.  Every result of compare_configurations carries
\* exactly 3 records, the first 3 of that waterfall for the evaluated input.
C20_TopIsPrefixOfExplanation ==
    /\ (response.op = "get_top_shap" /\ response.req.top_n >= 0) =>
          LET explained == ExplainPrediction(models, response.req.model_id,
                                             response.req.input_data)
              k == response.req.top_n
          IN  IF ~response.out.ok THEN response.out = explained
              ELSE LET nf == Len(Lookup(models, response.req.model_id).feature_names)
                       top == response.out.value
                   IN  /\ explained.ok
                       /\ FirstOf(explained.value.waterfall,
                                  IF k <= nf THEN k ELSE nf, top)
                       /\ \A i \in 1..(Len(top) - 1) :
                             QLe(QAbs(top[i + 1].shap_value), QAbs(top[i].shap_value))
    /\ Answered("compare_configurations") =>
          \A i \in 1..Len(response.out.value.results) :
              /\ Len(Lookup(models, response.req.model_id).feature_names) >= 3
              /\ FirstOf(ExplainPrediction(models, response.req.model_id,
                                           response.evaluated[i]).value.waterfall,
                         3, response.out.value.results[i].top_shap)

\* C20 witness: get_top_shap was asked for more records than the model has
\* features and answered one per feature
C20_AskedForMoreThanFeatures ==
    /\ Answered("get_top_shap")
    /\ response.req.top_n > NumFeatures
    /\ Len(response.out.value) = NumFeatures

----------------------------------------------------------------------------
\* C21 as stated: with two callers inside compute_shap_values, the explainer
\* runs at most once for an id, a cache entry is never replaced once it is
\* there, and two callers that have both been answered for the same id hold
\* the same entry.
C21_ConcurrentComputedOnce ==
    [][ /\ \A id \in DOMAIN runs : runs'[id] <= 1
        /\ \A id \in DOMAIN cache : id \in DOMAIN cache' /\ cache'[id] = cache[id]
        /\ \A t, u \in Callers :
              (/\ calls'[t].pc = "done" /\ calls'[u].pc = "done"
               /\ calls'[t].model_id = calls'[u].model_id
               /\ calls'[t].out.ok /\ calls'[u].out.ok)
                  => calls'[t].out = calls'[u].out ]_vars

\* C21, what the code keeps: a cache entry is never removed; a call whose
\* lookup finds the id cached answers that entry and neither runs the
\* explainer nor writes the cache; a call that inserts answers what it
\* inserted; the explainer runs at most once per caller for an id.
C21_HitsReuseTheEntry ==
    [][ /\ \A id \in DOMAIN cache : id \in DOMAIN cache'
        /\ \A id \in DOMAIN runs : runs'[id] <= Cardinality(Callers)
        /\ \A t \in Callers :
              /\ (/\ calls[t].pc = "idle" /\ calls'[t].pc # "idle"
                  /\ calls'[t].model_id \in DOMAIN cache)
                     => /\ calls'[t].pc = "done"
                        /\ calls'[t].out = Return(cache[calls'[t].model_id])
                        /\ runs' = runs /\ cache' = cache
              /\ (calls[t].pc = "computed" /\ calls'[t].pc = "done")
                     => calls'[t].out = Return(cache'[calls'[t].model_id]) ]_vars

\* C21 witness: both callers have been answered for m1 and each of them ran
\* the explainer
C21_BothRanExplainer ==
    /\ runs["m1"] = 2
    /\ \A t \in Callers :
          calls[t].pc = "done" /\ calls[t].model_id = "m1" /\ calls[t].out.ok

----------------------------------------------------------------------------
\* C22: after any sequence of save, mark_as_validation_candidate and delete
\* calls, failed ones included, a newly constructed ConfigurationService (one
\* that loads the file) lists exactly what the first service lists: the same
\* items, with the same ids, field values and candidate flags, in the same
\* order.  A call that fails with an unknown id changes neither.
C22_ReloadListsTheSame ==
    /\ [](/\ ListAll(LoadFromDisk(store)) = ListAll(configs)
          /\ \A i \in 1..Len(configs) : configs[i].value.id = configs[i].key)
    /\ [][ (response' # Idle /\ response = Idle /\ ~response'.out.ok)
               => configs' = configs /\ store' = store ]_vars

\* C22 witness: two configurations are held, the first a candidate marked
\* after it was saved, and a delete has just failed on an unknown id
C22_FailedDeleteAfterMark ==
    /\ response.op = "delete"
    /\ ~response.out.ok
    /\ Len(configs) = 2
    /\ configs[1].value.is_candidate
    /\ ~configs[2].value.is_candidate
    /\ configs[2].value.lower_bound # Absent

----------------------------------------------------------------------------
\* the squared correlation, NaN counted as 0, of the raw values of feature j
\* with the attributions of feature f over the rows of data
RawCorrelation(data, j, f) ==
    NanToZero(CorrSq(Column(data.X_test, j), Column(data.shap_values, f)))

\* C23 as stated: in every answer of get_dependence_data the colour feature
\* is another feature than the requested one, and none of the other
\* features correlates more with the requested feature's attributions.
C23_InteractingFeatureIsAnother ==
    Answered("get_dependence_data") =>
        LET data == cache[response.req.model_id]
            f == Position(response.req.feature)
            c == Position(response.out.value.color_feature)
        IN  /\ c # f
            /\ \A j \in (1..NumFeatures) \ {f} :
                    QLe(RawCorrelation(data, j, f), RawCorrelation(data, c, f))

\* C23, what the code keeps: the colour feature is the first feature in
\* canonical order with the highest correlation, the requested feature
\* itself entered as 0.  It is another feature whenever some other feature
\* has a correlation above 0 or the requested feature is not the first one.
C23_InteractingFeatureIsFirstMaximum ==
    Answered("get_dependence_data") =>
        LET data == cache[response.req.model_id]
            f == Position(response.req.feature)
            c == Position(response.out.value.color_feature)
            corr == [j \in 1..NumFeatures |->
                        IF j = f THEN Q(0) ELSE RawCorrelation(data, j, f)]
        IN  /\ \A j \in 1..NumFeatures : QLe(corr[j], corr[c])
            /\ \A j \in 1..(c - 1) : QLt(corr[j], corr[c])
            /\ (f # 1 \/ \E j \in 1..NumFeatures : corr[j] # Q(0)) => c # f

\* C23 witness: the last feature was asked for, no feature correlates with
\* its attributions, and the first feature was answered
C23_NothingCorrelatesWithLast ==
    /\ Answered("get_dependence_data")
    /\ response.req.feature = "age"
    /\ response.out.value.color_feature = "cement"
    /\ \A j \in 1..NumFeatures :
          RawCorrelation(cache[response.req.model_id], j, NumFeatures) = Q(0)

----------------------------------------------------------------------------
\* C24: explain_prediction leaves the attribution cache as it was, and its
\* answer comes from an explainer built afresh on the registry entry, cached
\* data or not: one record per canonical feature, each feature once, with
\* the input's value for it and the fresh attribution (both rounded as
\* returned), in order of non-increasing absolute attribution, and the fresh
\* base value.
C24_ExplainIgnoresCache ==
    [][ (response = Idle /\ response'.op = "explain_prediction") =>
          /\ cache' = cache
          /\ runs' = runs
          /\ response'.out.ok =>
                LET v == response'.out.value
                    input_data == response'.req.input_data
                    entry == Lookup(models, response'.req.model_id)
                    explainer == CreateExplainer(entry.model, entry.algorithm,
                                                 entry.X_train)
                    fresh == ShapValues(explainer,
                                        << [j \in 1..NumFeatures |->
                                               input_data[FeatureNames[j]]] >>)[1]
                IN  /\ CoversFeaturesOnce(v.waterfall)
                    /\ v.base_value = Round4(ExpectedValue(explainer))
                    /\ \A i \in 1..Len(v.waterfall) :
                          /\ v.waterfall[i].feature_value
                                = Round4(input_data[v.waterfall[i].feature])
                          /\ v.waterfall[i].shap_value
                                = Round4(fresh[Position(v.waterfall[i].feature)])
                    /\ \A i \in 1..(Len(v.waterfall) - 1) :
                          QLe(QAbs(v.waterfall[i + 1].shap_value),
                              QAbs(v.waterfall[i].shap_value)) ]_vars

\* C24 witness: explain_prediction answered for a model whose cached data
\* were computed before the model was trained again
C24_ExplainedBesideStaleCache ==
    /\ Answered("explain_prediction")
    /\ response.req.model_id \in DOMAIN cache
    /\ cache[response.req.model_id].expected_value
          # ComputeEntry(Lookup(models, response.req.model_id)).expected_value

----------------------------------------------------------------------------
\* the algorithms predict_with_uncertainty serves with the residual band
ResidualBanded(entry) ==
    entry.algorithm \notin {"random_forest", "extra_trees", "gradient_boosting"}

\* the band prediction -/+ 1.96 std, rounded as returned
RoundedAround(prediction, std) ==
    [lower_bound |-> Round4(QSub(prediction, QMul(Rat(196, 100), std))),
     upper_bound |-> Round4(QAdd(prediction, QMul(Rat(196, 100), std))),
     std_dev |-> Round4(std),
     confidence |-> Rat(95, 100)]

\* C25 as stated: no rounded value enters a later computation; the residual
\* band predict_with_uncertainty answers is prediction -/+ 1.96 times the
\* unrounded standard deviation of the held-out residuals, rounded once, as
\* it is returned.
C25_BandFromUnroundedStd ==
    (/\ Answered("predict_with_uncertainty")
     /\ ResidualBanded(Lookup(models, response.req.model_id))) =>
        LET entry == Lookup(models, response.req.model_id)
            x == [j \in 1..NumFeatures |-> response.req.input_data[FeatureNames[j]]]
        IN  response.out.value.uncertainty
                = RoundedAround(ModelPredictRow(entry.model, x),
                                Std(Residuals(entry.y_test, entry.y_pred)))

\* C25, what the code keeps: the entry holds the standard deviation of the
\* held-out residuals rounded to four decimals, and the residual band is
\* prediction -/+ 1.96 times that rounded value, rounded again as returned.
C25_BandFromRoundedStd ==
    (/\ Answered("predict_with_uncertainty")
     /\ ResidualBanded(Lookup(models, response.req.model_id))) =>
        LET entry == Lookup(models, response.req.model_id)
            x == [j \in 1..NumFeatures |-> response.req.input_data[FeatureNames[j]]]
        IN  /\ entry.residual_std = Round4(Std(Residuals(entry.y_test, entry.y_pred)))
            /\ response.out.value.uncertainty
                  = RoundedAround(ModelPredictRow(entry.model, x), entry.residual_std)

\* C25 witness: a residual band was answered by a model whose residual
\* standard deviation is no multiple of 10^-4
C25_BandOfRoundedStd ==
    /\ Answered("predict_with_uncertainty")
    /\ ResidualBanded(Lookup(models, response.req.model_id))
    /\ Lookup(models, response.req.model_id).residual_std
          # Std(Residuals(Lookup(models, response.req.model_id).y_test,
                           Lookup(models, response.req.model_id).y_pred))

----------------------------------------------------------------------------
\* C26: parametric_sweep, multivariable_exploration and
\* compare_configurations, succeeding or failing, leave the registry and the
\* attribution cache (and how often the explainer ran) as they were, and
\* what they answer depends on the registry and the arguments alone:
\* evaluated again in the state the call leaves, the same call answers the
\* same.
C26_ExplorationStateless ==
    [][ (/\ response = Idle
         /\ response'.op \in {"parametric_sweep", "multivariable_exploration",
                               "compare_configurations"}) =>
          /\ models' = models
          /\ cache' = cache
          /\ runs' = runs
          /\ response'.out =
                (CASE response'.op = "parametric_sweep" ->
                          ParametricSweep(models', response'.req).out
                   [] response'.op = "multivariable_exploration" ->
                          MultivariableExploration(models', response'.req).out
                   [] response'.op = "compare_configurations" ->
                          CompareConfigurations(models', response'.req).out) ]_vars

\* C26 witness: compare_configurations answered for a registered model whose
\* attribution data are not cached, while another model's are
C26_ComparedBesideCache ==
    /\ Answered("compare_configurations")
    /\ response.req.model_id \notin DOMAIN cache
    /\ DOMAIN cache # {}

----------------------------------------------------------------------------
\* C27 as stated: every answer of predict_with_uncertainty, whatever the
\* algorithm, has lower_bound <= upper_bound and std_dev >= 0.
C27_BandOrdered ==
    Answered("predict_with_uncertainty") =>
        /\ QLe(response.out.value.uncertainty.lower_bound,
               response.out.value.uncertainty.upper_bound)
        /\ QLe(Q(0), response.out.value.uncertainty.std_dev)

\* C27, what the code keeps: the band is ordered and std_dev >= 0 for every
\* algorithm but gradient_boosting; for gradient_boosting the bounds are
\* what the two quantile regressors predict, in whatever order, and std_dev
\* is negative exactly when lower_bound exceeds upper_bound.
C27_BandOrderedButForQuantiles ==
    Answered("predict_with_uncertainty") =>
        LET entry == Lookup(models, response.req.model_id)
            band == response.out.value.uncertainty
            x == [j \in 1..NumFeatures |-> response.req.input_data[FeatureNames[j]]]
        IN  IF entry.algorithm # "gradient_boosting"
            THEN QLe(band.lower_bound, band.upper_bound) /\ QLe(Q(0), band.std_dev)
            ELSE /\ band.lower_bound = Round4(ModelPredictRow(entry.quantile_lower, x))
                 /\ band.upper_bound = Round4(ModelPredictRow(entry.quantile_upper, x))
                 /\ QLt(band.upper_bound, band.lower_bound) => QLe(band.std_dev, Q(0))
                 /\ QLt(band.std_dev, Q(0)) => QLt(band.upper_bound, band.lower_bound)

\* C27 witness: a gradient_boosting model answered a band whose lower bound
\* lies above its upper bound, with a negative std_dev
C27_QuantilesCrossed ==
    /\ Answered("predict_with_uncertainty")
    /\ Lookup(models, response.req.model_id).algorithm = "gradient_boosting"
    /\ QLt(response.out.value.uncertainty.upper_bound,
           response.out.value.uncertainty.lower_bound)
    /\ QLt(response.out.value.uncertainty.std_dev, Q(0))

----------------------------------------------------------------------------
\* C28: in every reachable state every id with cached attribution data is a
\* registered id, and the feature_names cached with the data are those of
\* the registered entry; a compute_shap_values call that fails with "model
\* not found" leaves the cache as it was.
C28_CachedIdsAreRegistered ==
    /\ [](\A id \in DOMAIN cache :
              /\ id \in Keys(models)
              /\ cache[id].feature_names = Lookup(models, id).feature_names)
    /\ [][ (/\ response = Idle
             /\ response'.op = "compute_shap_values"
             /\ ModelNotFound(response'.out, response'.req.model_id))
                => cache' = cache ]_vars

\* C28 witness: compute_shap_values has just failed for an unregistered id
\* while the data of a registered model are cached
C28_FailedBesideCachedModel ==
    /\ response.op = "compute_shap_values"
    /\ ModelNotFound(response.out, response.req.model_id)
    /\ response.req.model_id \notin DOMAIN cache
    /\ DOMAIN cache # {}
    /\ DOMAIN cache \subseteq Keys(models)

----------------------------------------------------------------------------
\* C29: get_dependence_data checks the feature after it has obtained the
\* attribution data.  A call that fails with "feature not found" is about a
\* registered id and leaves data cached for it: when none were cached, the
\* data computed by this very call.  A call that fails with "model not
\* found" leaves the cache as it was.
C29_FeatureCheckedAfterCaching ==
    [][ (response = Idle /\ response'.op = "get_dependence_data") =>
          LET id == response'.req.model_id
              feature == response'.req.feature
          IN  /\ (id \in Keys(models) /\ feature \notin FeatureSet)
                    => Failed(response'.out, "ValueError", "Feature not found", feature)
              /\ Failed(response'.out, "ValueError", "Feature not found", feature)
                    => /\ id \in Keys(models)
                       /\ id \in DOMAIN cache'
                       /\ id \notin DOMAIN cache
                             => /\ cache'[id] = ComputeEntry(Lookup(models, id))
                                /\ runs'[id] = runs[id] + 1
              /\ ModelNotFound(response'.out, id)
                    => cache' = cache /\ runs' = runs ]_vars

\* C29 witness: get_dependence_data has just failed on an unknown feature of
\* the only model whose data are cached, computed once
C29_FailedCallLeftData ==
    /\ response.op = "get_dependence_data"
    /\ Failed(response.out, "ValueError", "Feature not found", response.req.feature)
    /\ DOMAIN cache = {response.req.model_id}
    /\ runs[response.req.model_id] = 1

----------------------------------------------------------------------------
\* C30: on every input an exploration evaluates (a complete input of a
\* registered model), the prediction of predict_with_uncertainty is the
\* value of predict.  Each point of a sweep carries that prediction and the
\* bounds of predict_with_uncertainty at the point, each result of
\* compare_configurations and each cell of a grid the value of predict; a
\* sweep or a grid along a feature the model does not have answers, without
\* an error, the same prediction at every step along it.
C30_PredictionsAgree ==
    /\ Answered("parametric_sweep") =>
          LET id == response.req.model_id
              points == response.out.value.points
          IN  /\ \A i \in 1..Len(points) :
                    LET unc == PredictWithUncertainty(models, id, response.evaluated[i]).value
                    IN  /\ unc.prediction = Predict(models, id, response.evaluated[i]).value
                        /\ points[i].prediction = unc.prediction
                        /\ points[i].lower_bound = unc.uncertainty.lower_bound
                        /\ points[i].upper_bound = unc.uncertainty.upper_bound
              /\ response.req.sweep_feature \notin FeatureSet =>
                    \A i, k \in 1..Len(points) : points[i].prediction = points[k].prediction
    /\ (/\ response.op = "parametric_sweep"
        /\ response.req.model_id \in Keys(models)
        /\ response.req.steps >= 0) => response.out.ok
    /\ Answered("compare_configurations") =>
          \A i \in 1..Len(response.out.value.results) :
              response.out.value.results[i].prediction
                  = Predict(models, response.req.model_id, response.evaluated[i]).value
    /\ Answered("multivariable_exploration") =>
          LET grid == response.out.value.predictions
              names == response.out.value.variable_names
          IN  /\ \A i \in 1..Len(grid) : \A j \in 1..Len(grid[i]) :
                    grid[i][j] = Predict(models, response.req.model_id,
                                         response.evaluated[i][j]).value
              /\ (names[1] \notin FeatureSet /\ names[2] # names[1]) =>
                    \A i \in 1..Len(grid) : \A j, k \in 1..Len(grid[i]) :
                        grid[i][j] = grid[i][k]
              /\ (names[2] \notin FeatureSet /\ names[2] # names[1]) =>
                    \A i, k \in 1..Len(grid) : \A j \in 1..Len(grid[i]) :
                        grid[i][j] = grid[k][j]

\* C30 witness: a sweep along a feature the model does not have answered
\* several points
C30_SweptAlongForeignFeature ==
    /\ Answered("parametric_sweep")
    /\ response.req.sweep_feature \notin FeatureSet
    /\ Len(response.out.value.points) >= 2

====
